---- MODULE Spec2Model ----
(***************************************************************************)
(* A model of pytopoviz: the MapObject entity, the ProcessingFunction      *)
(* abstraction, the built-in processors, the depth-first expansion engine  *)
(* (expand_plottables), and the 2D / 3D figure objects that consume it.    *)
(*                                                                         *)
(* Arrays are flattened to one row of NCells cells.  A cell is a record    *)
(* [k, v]: k = "fin" (finite, value v), "nan", "inf" (v = 1: +Inf,         *)
(* v = -1: -Inf) or "huge" (a finite float64 beyond the float32 range,     *)
(* sign v).  Finite values live on the integer lattice; a mean is rounded  *)
(* down onto that lattice.                                                 *)
(***************************************************************************)
EXTENDS Integers, Sequences, FiniteSets, TLC

\* ------------------------------------------------------------------ bounds
NCells == 2          \* cells of a grid
MaxProcs == 2        \* processors a caller attaches to the root MapObject
MaxDepth == 1        \* nesting depth of caller-defined processors on new MapObjects

\* ------------------------------------------------------------------- cells
Fin(n) == [k |-> "fin", v |-> n]
NaN == [k |-> "nan", v |-> 0]
PInf == [k |-> "inf", v |-> 1]
NInf == [k |-> "inf", v |-> -1]
Huge == [k |-> "huge", v |-> 1]
NoneV == [k |-> "none", v |-> 0]

\* np.isfinite / np.isnan on one cell
isfinite(c) == c.k \in {"fin", "huge"}
isnan(c) == c.k = "nan"

\* np.array(value, dtype=np.float32): a float64 beyond the float32 range
\* overflows to an infinity of its sign
astype_float32(c) == IF c.k = "huge" THEN [k |-> "inf", v |-> c.v] ELSE c

\* IEEE comparisons of two float32 cells (any comparison with NaN is false)
Lt(a, b) ==
    /\ ~isnan(a) /\ ~isnan(b)
    /\ \/ a.k = "fin" /\ b.k = "fin" /\ a.v < b.v
       \/ a.k = "inf" /\ a.v < 0 /\ ~(b.k = "inf" /\ b.v < 0)
       \/ b.k = "inf" /\ b.v > 0 /\ ~(a.k = "inf" /\ a.v > 0)
Eq(a, b) == ~isnan(a) /\ ~isnan(b) /\ a = b
Le(a, b) == Lt(a, b) \/ Eq(a, b)
Ge(a, b) == Le(b, a)

Idx == 1..NCells
Cells(arr) == {arr[i] : i \in Idx}

\* ---------------------------------------------------------------- MapObject
\* MapObject._prepare_value: float32 copy with every non-finite entry NaN
_prepare_value_keep_inf(value) == [i \in Idx |-> astype_float32(value[i])]
_prepare_value(value) ==
    [i \in Idx |-> LET c == astype_float32(value[i])
                   IN IF isfinite(c) THEN c ELSE NaN]

\* np.nanmin / np.nanmax: the least / greatest entry that is not NaN
nanmin(arr) == CHOOSE c \in Cells(arr) :
                  ~isnan(c) /\ \A d \in Cells(arr) : isnan(d) \/ Le(c, d)
nanmax(arr) == CHOOSE c \in Cells(arr) :
                  ~isnan(c) /\ \A d \in Cells(arr) : isnan(d) \/ Ge(c, d)

\* MapObject._nan_aware_minmax
_nan_aware_minmax(arr) ==
    IF \E i \in Idx : isfinite(arr[i])
    THEN <<nanmin(arr), nanmax(arr)>>
    ELSE <<NaN, NaN>>

\* MapObject.__init__ (the fields the claims read); vmin / vmax are NoneV
\* when the caller omits them, alpha is in percent.  The lighting arguments
\* are omitted: ambient, diffuse, specular and specular_power (in
\* hundredths) take their defaults, the optional ones are None.
MapObject(grid, z, cmap, vmin, vmax, alpha, name, processors, draped) ==
    LET value == _prepare_value(z)
        auto == _nan_aware_minmax(value)
    IN [cls |-> "MapObject",
        name |-> name, grid |-> grid, cmap |-> cmap, alpha |-> alpha,
        processors |-> processors, draped |-> draped, z_scale_factor |-> 1,
        ambient |-> 15, diffuse |-> 80, specular |-> 10, specular_power |-> 1000,
        smooth_shading |-> "None", eye_dome_lighting |-> "None",
        light_azimuth |-> NoneV, light_elevation |-> NoneV, light_intensity |-> NoneV,
        value |-> value,
        vmin |-> IF vmin = NoneV \/ vmax = NoneV
                 THEN (IF vmin = NoneV THEN auto[1] ELSE vmin)
                 ELSE vmin,
        vmax |-> IF vmin = NoneV \/ vmax = NoneV
                 THEN (IF vmax = NoneV THEN auto[2] ELSE vmax)
                 ELSE vmax]

\* MapObject.value (setter): a variant that keeps the bounds it had
set_value_keep_bounds(mapper, value) ==
    [mapper EXCEPT !.value = _prepare_value(value)]
\* MapObject.value (setter)
set_value(mapper, value) ==
    LET v == _prepare_value(value)
        mm == _nan_aware_minmax(v)
    IN [mapper EXCEPT !.value = v, !.vmin = mm[1], !.vmax = mm[2]]

\* MapObject.grid (setter): grid is the new GridObject, z its data
set_grid(mapper, grid, z) == set_value([mapper EXCEPT !.grid = grid], z)

\* MapObject.__eq__: other is any object (a record with a cls field)
__eq__by_name_only(self, other) == self.name = other.name
__eq__(self, other) ==
    IF other.cls # "MapObject" THEN FALSE ELSE self.name = other.name
\* MapObject.__hash__: hash(self._name); the string hash is abstracted to
\* the length of the name, so distinct names may collide
__hash__(self) == Len(self.name)

\* ------------------------------------------------------- ProcessingFunction
\* ProcessingFunction.__init__ and __post_init__: the dataclass fields and
\* the two string-keyed copies "2d_compatible" / "3d_compatible"
ProcessingFunction(name, recursive, compatible_2d, compatible_3d) ==
    [name |-> name, recursive |-> recursive,
     compatible_2d |-> compatible_2d, compatible_3d |-> compatible_3d,
     attr_2d_compatible |-> compatible_2d,
     attr_3d_compatible |-> compatible_3d]

\* ProcessorFactory.build: params become attributes of the processor; built
\* keeps the arguments the factory closure was called with
build(name, recursive, compatible_2d, compatible_3d, params) ==
    [proc |-> ProcessingFunction(name, recursive, compatible_2d, compatible_3d),
     params |-> params, built |-> params]

\* the built-in factories
nan_equal(target) == build("nan_equal", TRUE, TRUE, TRUE, [target |-> target])
nan_below(threshold) == build("nan_below", TRUE, TRUE, TRUE, [threshold |-> threshold])
nan_above(threshold) == build("nan_above", TRUE, TRUE, TRUE, [threshold |-> threshold])
gaussian_smooth(sigma) ==
    build("gaussian_smooth", TRUE, TRUE, TRUE, [sigma |-> sigma, mode |-> "nearest"])
hillshade_processor(azimuth) ==
    build("hillshade", FALSE, TRUE, TRUE,
          [azimuth |-> azimuth, altitude |-> 50, exaggerate |-> 1, fused |-> TRUE])
\* azimuths is a sequence: tuple(azimuths) is taken whatever its length
multishade_processor(azimuths) ==
    build("multishade", FALSE, TRUE, TRUE,
          [azimuths |-> azimuths, altitude |-> 50, exaggerate |-> 1, fused |-> TRUE])
scale(factor) == build("scale", TRUE, FALSE, TRUE, [factor |-> factor])
\* lighting_control(**args): args holds the ten keyword arguments, numbers
\* in hundredths (degrees for the angles), NoneV or "None" when omitted
lighting_control(args) == build("lighting_control", TRUE, FALSE, TRUE, args)
\* the relative lighting processors: no parameters
lighting_intensity_up == build("lighting_intensity_up", TRUE, FALSE, TRUE, <<>>)
lighting_intensity_down == build("lighting_intensity_down", TRUE, FALSE, TRUE, <<>>)
lighting_brighten == build("lighting_brighten", TRUE, FALSE, TRUE, <<>>)
lighting_darken == build("lighting_darken", TRUE, FALSE, TRUE, <<>>)
\* a caller-defined processor (ProcessingFunction's apply contract): it may
\* return None, one object or a list of objects, MapObjects or not
custom(compatible_2d, compatible_3d) ==
    build("custom", TRUE, compatible_2d, compatible_3d, [tag |-> 0])

\* _processor_is_compatible; mode is "2d", "3d" or "none" (None)
_processor_is_compatible_always(p, mode) == TRUE
_processor_is_compatible(p, mode) ==
    CASE mode = "none" -> TRUE
      [] mode = "2d" -> p.proc.attr_2d_compatible
      [] mode = "3d" -> p.proc.attr_3d_compatible

\* ------------------------------------------------------ numeric collaborators
RECURSIVE SumCells(_, _)
SumCells(arr, S) ==
    IF S = {} THEN 0
    ELSE LET i == CHOOSE j \in S : TRUE IN arr[i].v + SumCells(arr, S \ {i})

FiniteIdx(arr) == {i \in Idx : isfinite(arr[i])}
\* the mean of the finite cells of arr among S, on the integer lattice
MeanOver(arr, S) == SumCells(arr, S) \div Cardinality(S)

\* scipy.ndimage.gaussian_filter on data and on its finite mask, divided:
\* a cell with no finite cell within the kernel's support (4 sigma) is NaN,
\* any other is the weighted mean (here: the mean) of the finite cells in it
nan_gaussian(data, sigma) ==
    [i \in Idx |->
        LET S == {j \in FiniteIdx(data) : j - i <= 4 * sigma /\ i - j <= 4 * sigma}
        IN IF S = {} THEN NaN ELSE Fin(MeanOver(data, S))]

Clip(x, lo, hi) == IF x < lo THEN lo ELSE IF x > hi THEN hi ELSE x
\* GridObject.hillshade of topotoolbox on an all-finite surface: an
\* illumination that grows with the slope facing the light (from the west
\* for azimuths >= 180, else from the east); 2 on a flat surface
GridObject_hillshade(z, azimuth, exaggerate) ==
    [i \in Idx |->
        LET l == z[IF i = 1 THEN 1 ELSE i - 1].v
            r == z[IF i = NCells THEN NCells ELSE i + 1].v
            d == IF azimuth >= 180 THEN 1 ELSE -1
        IN Fin(Clip(2 + d * exaggerate * (r - l), 0, 4))]

\* ------------------------------------------------------------- hillshading
\* np.asarray(values, dtype=np.float32)
asarray_float32(values) == [i \in Idx |-> astype_float32(values[i])]

\* a variant of _hillshade_from_values that returns the shading unmasked
_hillshade_from_values_unmasked(mapper, gridz, values, azimuth, exaggerate, alpha, name, newgrid) ==
    LET vals == asarray_float32(values)
        grid_values == asarray_float32(gridz)
        finite_grid == FiniteIdx(grid_values)
        fallback_val == IF finite_grid # {} THEN MeanOver(grid_values, finite_grid) ELSE 0
        clean_values == [i \in Idx |-> IF isfinite(vals[i]) THEN vals[i] ELSE Fin(fallback_val)]
        hs == GridObject_hillshade(clean_values, azimuth, exaggerate)
        result == MapObject(newgrid, hs, "gray", NoneV, NoneV, alpha, name, <<>>, FALSE)
    IN [layer |-> set_value([result EXCEPT !.draped = TRUE], hs), z |-> hs]

\* _hillshade_from_values: gridz is mapper.grid.z, name the random name of
\* the new MapObject, newgrid the identity of the GridObject hs_grid.
\* Yields the new MapObject and the data of hs_grid.
_hillshade_from_values(mapper, gridz, values, azimuth, exaggerate, alpha, name, newgrid) ==
    LET vals == asarray_float32(values)
        mask == {i \in Idx : isnan(vals[i])}
        has_finite_values == \E i \in Idx : isfinite(vals[i])
        grid_values == asarray_float32(gridz)
        finite_grid == FiniteIdx(grid_values)
        fallback_val == IF finite_grid # {} THEN MeanOver(grid_values, finite_grid) ELSE 0
        clean_values == [i \in Idx |-> IF isfinite(vals[i]) THEN vals[i] ELSE Fin(fallback_val)]
        hs == GridObject_hillshade(clean_values, azimuth, exaggerate)
        shaded_values ==
            IF mask # {}
            THEN IF has_finite_values
                 THEN [i \in Idx |-> IF i \in mask THEN NaN ELSE hs[i]]
                 ELSE [i \in Idx |-> IF isnan(grid_values[i]) THEN NaN ELSE hs[i]]
            ELSE hs
        result == MapObject(newgrid, hs, "gray", NoneV, NoneV, alpha, name, <<>>, FALSE)
    IN [layer |-> set_value([result EXCEPT !.draped = TRUE], shaded_values), z |-> hs]

\* hillshade(mapper, ...) with the default alpha = 0.45
hillshade(mapper, gridz, azimuth, exaggerate, name, newgrid) ==
    _hillshade_from_values(mapper, gridz, mapper.value, azimuth, exaggerate, 45, name, newgrid)

\* np.divide(summed, valid_counts, out=<all NaN>, where=where): a cell
\* outside where keeps the NaN of out; a division by a zero count that is
\* carried out gives NaN and a RuntimeWarning
np_divide_everywhere(summed, valid_counts, where) ==
    [out |-> [i \in Idx |->
                 IF valid_counts[i] # 0 THEN Fin(summed[i] \div valid_counts[i]) ELSE NaN],
     warned |-> \E i \in Idx : valid_counts[i] = 0]
np_divide(summed, valid_counts, where) ==
    [out |-> [i \in Idx |->
                 IF i \in where /\ valid_counts[i] # 0
                 THEN Fin(summed[i] \div valid_counts[i]) ELSE NaN],
     warned |-> \E i \in where : valid_counts[i] = 0]

\* the averaging of multishade over stacked = [shade1, shade2]:
\* valid_counts, np.nansum (a NaN counts as 0) and the guarded division
average_first_only(shade1, shade2) ==
    [out |-> shade1, warned |-> FALSE]
average(shade1, shade2) ==
    LET valid_counts == [i \in Idx |-> (IF isfinite(shade1[i]) THEN 1 ELSE 0)
                                       + (IF isfinite(shade2[i]) THEN 1 ELSE 0)]
        summed == [i \in Idx |-> (IF isnan(shade1[i]) THEN 0 ELSE shade1[i].v)
                                + (IF isnan(shade2[i]) THEN 0 ELSE shade2[i].v)]
    IN np_divide(summed, valid_counts, {i \in Idx : valid_counts[i] > 0})

\* multishade(mapper, azimuths=...): raises ValueError before anything is
\* computed unless there are two azimuths; else the new MapObject, the data
\* of its GridObject and whether a RuntimeWarning was issued
multishade_result(averaged, name, newgrid) ==
    [raises |-> "", warned |-> averaged.warned, z |-> averaged.out,
     layer |-> set_value([MapObject(newgrid, averaged.out, "gray", NoneV, NoneV, 45, name,
                                    <<>>, FALSE) EXCEPT !.draped = TRUE],
                         averaged.out)]
\* a variant of multishade that averages the first and the last azimuth
multishade_unchecked(mapper, gridz, azimuths, exaggerate, name, newgrid) ==
    multishade_result(
        average(hillshade(mapper, gridz, azimuths[1], exaggerate, name, newgrid).layer.value,
                hillshade(mapper, gridz, azimuths[Len(azimuths)], exaggerate, name,
                          newgrid).layer.value),
        name, newgrid)
multishade(mapper, gridz, azimuths, exaggerate, name, newgrid) ==
    IF Len(azimuths) # 2
    THEN [raises |-> "ValueError", warned |-> FALSE]
    ELSE multishade_result(
             average(hillshade(mapper, gridz, azimuths[1], exaggerate, name, newgrid).layer.value,
                     hillshade(mapper, gridz, azimuths[2], exaggerate, name, newgrid).layer.value),
             name, newgrid)

\* ------------------------------------------------- the built-in processors
\* the attributes a process function reads through self
self_at_build(p) == p.built
self(p) == p.params

\* arr[mask] = np.nan, mask being the set of the indexes to overwrite
MaskWhere(arr, mask) == [i \in Idx |-> IF i \in mask THEN NaN ELSE arr[i]]

\* the process functions that mutate the MapObject in place and return None
nan_below_process_strict(p, mapper) ==
    [mapper EXCEPT !.value = MaskWhere(@, {i \in Idx : Lt(@[i], self(p).threshold)})]
nan_equal_process(p, mapper) ==
    [mapper EXCEPT !.value = MaskWhere(@, {i \in Idx : Eq(@[i], self(p).target)})]
nan_below_process(p, mapper) ==
    [mapper EXCEPT !.value = MaskWhere(@, {i \in Idx : Le(@[i], self(p).threshold)})]
nan_above_process(p, mapper) ==
    [mapper EXCEPT !.value = MaskWhere(@, {i \in Idx : Ge(@[i], self(p).threshold)})]
gaussian_smooth_process(p, mapper) ==
    set_value(mapper, nan_gaussian(mapper.value, self(p).sigma))
\* a variant that assigns the factor instead of multiplying by it
scale_process_assign(p, mapper) ==
    [mapper EXCEPT !.z_scale_factor = self(p).factor]
scale_process(p, mapper) ==
    [mapper EXCEPT !.z_scale_factor = @ * self(p).factor]

\* the lighting setters of MapObject
set_ambient(mapper, v) == [mapper EXCEPT !.ambient = Clip(v, 0, 100)]
set_diffuse(mapper, v) == [mapper EXCEPT !.diffuse = Clip(v, 0, 100)]
set_specular(mapper, v) == [mapper EXCEPT !.specular = Clip(v, 0, 100)]
set_specular_power(mapper, v) == [mapper EXCEPT !.specular_power = IF v < 0 THEN 0 ELSE v]

\* lighting_control.process, first part: the flat preset when enabled is
\* False, else the material arguments that are not None
lighting_material(a, mapper) ==
    IF a.enabled = "False"
    THEN [set_specular_power(set_specular(set_diffuse(set_ambient(mapper, 100), 0), 0), 100)
             EXCEPT !.smooth_shading = "False"]
    ELSE [set_specular_power(
              set_specular(
                  set_diffuse(
                      set_ambient(mapper, IF a.ambient = NoneV THEN mapper.ambient
                                          ELSE a.ambient.v),
                      IF a.diffuse = NoneV THEN mapper.diffuse ELSE a.diffuse.v),
                  IF a.specular = NoneV THEN mapper.specular ELSE a.specular.v),
              IF a.specular_power = NoneV THEN mapper.specular_power
              ELSE a.specular_power.v)
             EXCEPT !.smooth_shading = IF a.smooth_shading = "None" THEN @
                                       ELSE a.smooth_shading]
\* lighting_control.process, second part: the scene arguments that are not
\* None, whatever enabled is
lighting_scene(a, mapper) ==
    [mapper EXCEPT
        !.eye_dome_lighting = IF a.eye_dome_lighting = "None" THEN @ ELSE a.eye_dome_lighting,
        !.light_azimuth = IF a.light_azimuth = NoneV THEN @ ELSE a.light_azimuth,
        !.light_elevation = IF a.light_elevation = NoneV THEN @ ELSE a.light_elevation,
        !.light_intensity = IF a.light_intensity = NoneV THEN @ ELSE a.light_intensity]
lighting_control_process(p, mapper) ==
    lighting_scene(self(p), lighting_material(self(p), mapper))

\* x * f for a float factor f given in hundredths, on the lattice of
\* hundredths
Times(x, f) == (x * f) \div 100
\* the relative lighting processors: each field is read and assigned
\* through its setter
lighting_intensity_up_process(p, mapper) ==
    set_specular(set_diffuse(set_ambient(mapper, Times(mapper.ambient, 120)),
                             Times(mapper.diffuse, 120)),
                 Times(mapper.specular, 120))
lighting_intensity_down_process(p, mapper) ==
    set_specular(set_diffuse(set_ambient(mapper, Times(mapper.ambient, 80)),
                             Times(mapper.diffuse, 80)),
                 Times(mapper.specular, 80))
lighting_brighten_process(p, mapper) ==
    set_diffuse(set_ambient(mapper, Times(mapper.ambient, 130)), Times(mapper.diffuse, 115))
lighting_darken_process(p, mapper) ==
    set_diffuse(set_ambient(mapper, Times(mapper.ambient, 70)), Times(mapper.diffuse, 85))

\* the process functions that return a new MapObject
hillshade_process(p, mapper, gridz, name, newgrid) ==
    [raises |-> "", warned |-> FALSE] @@
    hillshade(mapper, gridz, self(p).azimuth, self(p).exaggerate, name, newgrid)
multishade_process(p, mapper, gridz, name, newgrid) ==
    multishade(mapper, gridz, self(p).azimuths, self(p).exaggerate, name, newgrid)

Mutators ==
    {"nan_equal", "nan_below", "nan_above", "gaussian_smooth", "scale", "lighting_control"}
Shaders == {"hillshade", "multishade"}

\* ProcessingFunction.__call__ on a built-in processor: the MapObject as the
\* call leaves it, and the MapObjects it returns (with the data of their
\* new GridObjects); none is TRUE when the call returns None; raises names
\* the exception the call ends with, if any
call_returned(mapper, r) ==
    IF r.raises = ""
    THEN [mapper |-> mapper, none |-> FALSE, items |-> <<r.layer>>, z |-> <<r.z>>,
          raises |-> "", warned |-> r.warned]
    ELSE [mapper |-> mapper, none |-> TRUE, items |-> <<>>, z |-> <<>>,
          raises |-> r.raises, warned |-> FALSE]
call_mutated(mapper) ==
    [mapper |-> mapper, none |-> TRUE, items |-> <<>>, z |-> <<>>,
     raises |-> "", warned |-> FALSE]
__call__(p, mapper, gridz, name, newgrid) ==
    CASE p.proc.name = "hillshade" ->
             call_returned(mapper, hillshade_process(p, mapper, gridz, name, newgrid))
      [] p.proc.name = "multishade" ->
             call_returned(mapper, multishade_process(p, mapper, gridz, name, newgrid))
      [] p.proc.name = "nan_equal" -> call_mutated(nan_equal_process(p, mapper))
      [] p.proc.name = "nan_below" -> call_mutated(nan_below_process(p, mapper))
      [] p.proc.name = "nan_above" -> call_mutated(nan_above_process(p, mapper))
      [] p.proc.name = "gaussian_smooth" -> call_mutated(gaussian_smooth_process(p, mapper))
      [] p.proc.name = "scale" -> call_mutated(scale_process(p, mapper))
      [] p.proc.name = "lighting_control" ->
             call_mutated(lighting_control_process(p, mapper))
      [] p.proc.name = "lighting_intensity_up" ->
             call_mutated(lighting_intensity_up_process(p, mapper))
      [] p.proc.name = "lighting_intensity_down" ->
             call_mutated(lighting_intensity_down_process(p, mapper))
      [] p.proc.name = "lighting_brighten" ->
             call_mutated(lighting_brighten_process(p, mapper))
      [] p.proc.name = "lighting_darken" ->
             call_mutated(lighting_darken_process(p, mapper))
      [] OTHER -> call_mutated(mapper)

\* ------------------------------------------------------------------- state
VARIABLES
    grids,      \* heap of GridObjects: identity -> data (<<>> when collected)
    layers,     \* heap of MapObjects: identity -> fields
    last,       \* the call made last: its name and its argument
    pc,         \* "idle", or the function that is running
    mode,       \* the mode argument of the running expansion
    stack,      \* call stack of walk / collect: one frame per activation
    result,     \* the list the last expansion returned
    invoked,    \* the processor calls of the running expansion, in order
    origin,     \* per MapObject: which call produced it, from what
    raised,     \* the exception that reached the caller ("" when none)
    fig,        \* the running add_maps call: its arguments and its progress
    plot_list,  \* the plot_list of the running add_maps call
    images,     \* Fig2DObject.images: a dict, as its entries in insertion order
    workflow    \* the Workflow object: its spec dict

heapVars == <<grids, layers>>
walkVars == <<pc, mode, stack, result, invoked, origin, raised>>
figVars == <<fig, plot_list, images, workflow>>
vars == <<grids, layers, last, pc, mode, stack, result, invoked, origin, raised,
          fig, plot_list, images, workflow>>

\* ------------------------------------------------------------------ inputs
FiniteCells == {Fin(0), Fin(1)}
InputCells == FiniteCells \cup {NaN, PInf, NInf, Huge}
\* the data of the GridObject a MapObject is constructed on
InitArrays == [Idx -> FiniteCells \cup {NaN, PInf}]
\* the arrays assigned later: any entry first, any entry in the other cells
StepArrays == {[i \in Idx |-> IF i = 1 THEN a ELSE b] : a, b \in InputCells}
\* the data of a GridObject assigned later: any entry first, then finite ones
NewGridArrays ==
    {[i \in Idx |-> IF i = 1 THEN a ELSE b] : a \in InputCells, b \in FiniteCells}
\* names secrets.choice may generate
GeneratedNames == {"x1", "y22"}

\* ----------------------------------------------------------- the two heaps
LiveGrids(ls) == {ls[i].grid : i \in DOMAIN ls}
\* the identity of a newly allocated GridObject
FreshGrid(ls) ==
    CHOOSE g \in 1..(Cardinality(LiveGrids(ls)) + 1) :
        g \notin LiveGrids(ls) /\ \A h \in 1..(g - 1) : h \in LiveGrids(ls)
PutGrid(gs, g, z) == IF g > Len(gs) THEN Append(gs, z) ELSE [gs EXCEPT ![g] = z]
\* garbage collection: a GridObject no MapObject refers to is gone
Sweep(gs, ls) == [g \in 1..Len(gs) |-> IF g \in LiveGrids(ls) THEN gs[g] ELSE <<>>]

IdleWalk ==
    /\ pc = "idle" /\ mode = "none" /\ stack = <<>> /\ result = <<>>
    /\ invoked = <<>> /\ origin = <<[parent |-> 0, pos |-> 0, seen |-> <<>>]>>
    /\ raised = ""
\* no Workflow was loaded
NoWorkflow == [spec |-> <<>>, file |-> <<>>, built |-> <<>>]
\* no figure is involved
NoFig ==
    /\ fig = [maps |-> <<>>, surface_map_override |-> 0, next |-> 1, drawn |-> 0]
    /\ plot_list = <<>> /\ images = <<>>
    /\ workflow = NoWorkflow

\* --------------------------------------- MapObject used directly by a caller
LayerProcessors ==
    {nan_equal(t) : t \in FiniteCells} \cup {nan_below(t) : t \in FiniteCells}
    \cup {nan_above(t) : t \in FiniteCells}
    \cup {gaussian_smooth(0), gaussian_smooth(1), hillshade_processor(315)}

\* mapper = MapObject(grid, vmin=..., vmax=...)
InitLayer ==
    \E z \in InitArrays, vmin \in {NoneV, Fin(0)}, vmax \in {NoneV, Fin(1)} :
        /\ grids = <<z>>
        /\ layers = <<MapObject(1, z, "terrain", vmin, vmax, 100, "dem", <<>>, FALSE)>>
        /\ last = [op |-> "init", vmin |-> vmin, vmax |-> vmax]
        /\ IdleWalk /\ NoFig

\* mapper.value = arr (a MapObject a processor returned earlier is dropped)
SetValue ==
    \E arr \in StepArrays :
        /\ layers' = <<set_value(layers[1], arr)>>
        /\ grids' = Sweep(grids, layers')
        /\ last' = [op |-> "set_value",
                    inf |-> {i \in Idx : arr[i].k = "inf"},
                    old |-> <<layers[1].vmin, layers[1].vmax>>]
        /\ UNCHANGED <<walkVars, figVars>>

\* mapper.grid = a new GridObject with data z
SetGrid ==
    \E z \in NewGridArrays :
        LET g == FreshGrid(layers) IN
        /\ layers' = <<set_grid(layers[1], g, z)>>
        /\ grids' = Sweep(PutGrid(grids, g, z), layers')
        /\ last' = [op |-> "set_grid",
                    inf |-> {i \in Idx : z[i].k = "inf"},
                    old |-> <<layers[1].vmin, layers[1].vmax>>]
        /\ UNCHANGED <<walkVars, figVars>>

\* proc = <factory>(...); out = proc(mapper)
CallProcessor ==
    \E p \in LayerProcessors, name \in GeneratedNames :
        LET g == FreshGrid(layers)
            r == __call__(p, layers[1], grids[layers[1].grid], name, g)
        IN
        /\ layers' = <<r.mapper>> \o r.items
        /\ grids' = Sweep(IF r.z = <<>> THEN grids ELSE PutGrid(grids, g, r.z[1]), layers')
        /\ last' = [op |-> "call", proc |-> p, before |-> layers[1].value]
        /\ UNCHANGED <<walkVars, figVars>>

NextLayer == SetValue \/ SetGrid \/ CallProcessor
SpecLayer == InitLayer /\ [][NextLayer]_vars

\* ------------------------------------------------------- expand_plottables
\* is_plottable on a reference to an object
is_plottable(ref) == ref.cls = "MapObject"
Ref(id) == [cls |-> "MapObject", id |-> id]
\* a reference to an object that is no MapObject
Other == [cls |-> "other", id |-> 0]

\* the k-th processor `for proc in current.processors` yields
processors_reversed(mapper, k) == mapper.processors[Len(mapper.processors) + 1 - k]
processors_at(mapper, k) == mapper.processors[k]

\* a variant that starts from an empty list
collected_init_empty(current) == <<>>
\* collected = [current] on entry to walk
collected_init(current) == <<current>>
\* collected.extend(walk(item))
extend_front(collected, returned) == returned \o collected
extend(collected, returned) == collected \o returned

Frame(current) ==
    [cur |-> current, pi |-> 1, pending |-> <<>>, collected |-> collected_init(current)]

\* What a caller-defined processor may return when called at nesting depth
\* d: None, one new MapObject, or a list of two objects the first of which
\* may be no MapObject.  A new MapObject is built on the Grid of the
\* MapObject the processor was called on and named "kid"; below MaxDepth it
\* may carry a caller-defined processor of its own.
KidProcessors(d) ==
    {<<>>, <<hillshade_processor(315)>>} \cup
    (IF d < MaxDepth THEN {<<custom(TRUE, TRUE)>>} ELSE {})
KidSpec(processors, draped) ==
    [cls |-> "MapObject", processors |-> processors, draped |-> draped]
CustomOutputs(d, drapes) ==
    {[none |-> TRUE, items |-> <<>>]}
    \cup {[none |-> FALSE, items |-> <<KidSpec(kp, dr)>>] :
              kp \in KidProcessors(d), dr \in drapes}
    \cup {[none |-> FALSE, items |-> <<KidSpec(kp, dr), KidSpec(<<>>, FALSE)>>] :
              kp \in KidProcessors(d), dr \in drapes}
    \cup {[none |-> FALSE, items |-> <<Other, KidSpec(<<>>, dr)>>] : dr \in drapes}

\* The outcomes of proc(current): the MapObject as the call leaves it, the
\* new MapObjects, the data of the new GridObject (if any) and the list of
\* references the call returns, or the exception it raises.  base is the
\* number of MapObjects on the heap.
Outcomes(p, mapper, gridz, newgrid, base, d, drapes, names) ==
    IF p.proc.name = "custom"
    THEN {LET kids == SelectSeq(o.items, LAMBDA it : it.cls = "MapObject")
              made == [k \in 1..Len(kids) |->
                          [MapObject(mapper.grid, gridz, "terrain", NoneV, NoneV, 100,
                                     "kid", kids[k].processors, FALSE)
                              EXCEPT !.draped = kids[k].draped]]
              nth(j) == Cardinality({i \in 1..j : o.items[i].cls = "MapObject"})
          IN [mapper |-> mapper, made |-> made, z |-> <<>>, none |-> o.none,
              raises |-> "", warned |-> FALSE,
              produced |-> [j \in 1..Len(o.items) |->
                               IF o.items[j].cls = "MapObject"
                               THEN Ref(base + nth(j)) ELSE Other]]
          : o \in CustomOutputs(d, drapes)}
    ELSE {LET r == __call__(p, mapper, gridz, name, newgrid)
          IN [mapper |-> r.mapper, made |-> r.items, z |-> r.z, none |-> r.none,
              raises |-> r.raises, warned |-> r.warned,
              produced |-> [j \in 1..Len(r.items) |-> Ref(base + j)]]
          : name \in (IF p.proc.name \in Shaders THEN names ELSE {"-"})}

Top == stack[Len(stack)]
SetTop(f) == [stack EXCEPT ![Len(stack)] = f]
\* the MapObjects a caller constructed (the rest were made by processors)
Roots == {i \in DOMAIN layers : origin[i].parent = 0}
RootOrigin == [parent |-> 0, pos |-> 0, seen |-> <<>>]

\* expand_plottables(mapper, mode) is called on the root MapObject; what an
\* earlier expansion returned has been dropped
WalkStart ==
    /\ pc = "idle"
    /\ \E m \in {"2d", "3d", "none"} : mode' = m
    /\ layers' = SubSeq(layers, 1, Cardinality(Roots))
    /\ origin' = SubSeq(origin, 1, Cardinality(Roots))
    /\ grids' = Sweep(grids, layers')
    /\ stack' = <<Frame(1)>>
    /\ pc' = "walk"
    /\ result' = <<>>
    /\ invoked' = <<>>
    /\ raised' = ""
    /\ last' = [op |-> "expand", value |-> layers[1].value,
                z_scale_factor |-> layers[1].z_scale_factor]
    /\ UNCHANGED figVars

\* one iteration of `for proc in current.processors`: skip an incompatible
\* processor, else call it and keep what it returned; an exception of the
\* call unwinds every activation of walk and reaches the caller
WalkInvoke ==
    /\ pc = "walk" /\ Top.pending = <<>>
    /\ Top.pi <= Len(layers[Top.cur].processors)
    /\ LET cur == Top.cur
           p == processors_at(layers[cur], Top.pi)
       IN IF ~_processor_is_compatible(p, mode)
          THEN /\ stack' = SetTop([Top EXCEPT !.pi = @ + 1])
               /\ UNCHANGED <<grids, layers, origin, invoked, pc, raised>>
          ELSE \E o \in Outcomes(p, layers[cur], grids[layers[cur].grid],
                                 FreshGrid(layers), Len(layers), Len(stack),
                                 {FALSE}, GeneratedNames) :
                 /\ raised' = o.raises
                 /\ pc' = IF o.raises # "" THEN "raised" ELSE pc
                 /\ layers' = [layers EXCEPT ![cur] = o.mapper] \o o.made
                 /\ grids' = IF o.z = <<>> THEN grids
                             ELSE PutGrid(grids, FreshGrid(layers), o.z[1])
                 /\ origin' = origin \o
                        [k \in 1..Len(o.made) |->
                            [parent |-> cur, pos |-> Top.pi, seen |-> layers[cur].value]]
                 /\ invoked' = Append(invoked,
                        [layer |-> cur, pos |-> Top.pi, self |-> p.params,
                         before |-> layers[cur].value, after |-> o.mapper.value,
                         raises |-> o.raises, warned |-> o.warned])
                 /\ stack' = IF o.raises # "" THEN <<>>
                             ELSE SetTop([Top EXCEPT !.pi = @ + 1,
                                                     !.pending = IF o.none THEN <<>>
                                                                 ELSE o.produced])
    /\ UNCHANGED <<mode, result, last, figVars>>

\* one iteration of `for item in produced_list`: skip what is not
\* plottable, else call walk(item)
WalkDescend ==
    /\ pc = "walk" /\ Top.pending # <<>>
    /\ LET item == Head(Top.pending)
           rest == SetTop([Top EXCEPT !.pending = Tail(@)])
       IN stack' = IF is_plottable(item) THEN Append(rest, Frame(item.id)) ELSE rest
    /\ UNCHANGED <<grids, layers, origin, invoked, pc, mode, result, last, raised, figVars>>

\* `return collected`: the caller extends its own list, the outermost call
\* returns to the caller of expand_plottables
WalkReturn ==
    /\ pc = "walk" /\ Top.pending = <<>>
    /\ Top.pi > Len(layers[Top.cur].processors)
    /\ IF Len(stack) > 1
       THEN /\ stack' = [SubSeq(stack, 1, Len(stack) - 1) EXCEPT ![Len(stack) - 1].collected =
                             extend(@, Top.collected)]
            /\ UNCHANGED <<pc, result>>
       ELSE /\ stack' = <<>>
            /\ pc' = "done"
            /\ result' = Top.collected
    /\ UNCHANGED <<grids, layers, origin, invoked, mode, last, raised, figVars>>

\* proc.threshold = v / proc.target = v on an attached mask processor
EditParam ==
    /\ pc = "idle"
    /\ \E i \in 1..Len(layers[1].processors), v \in FiniteCells :
           LET p == layers[1].processors[i]
           IN /\ p.proc.name \in {"nan_below", "nan_above", "nan_equal"}
              /\ layers' = [layers EXCEPT ![1].processors[i].params =
                               IF p.proc.name = "nan_equal"
                               THEN [@ EXCEPT !.target = v]
                               ELSE [@ EXCEPT !.threshold = v]]
              /\ layers'[1] # layers[1]
              /\ last' = [op |-> "edit", pos |-> i, written |-> v]
    /\ UNCHANGED <<grids, origin, invoked, pc, mode, stack, result, raised, figVars>>

\* A processor a caller builds with ProcessorFactory.build: the nan_above
\* function flagged as not 2D-compatible
nan_above_3d_only(threshold) ==
    build("nan_above", FALSE, FALSE, TRUE, [threshold |-> threshold])

ListsOver(catalogue) == UNION {[1..n -> catalogue] : n \in 0..MaxProcs}

\* mapper = MapObject(grid, processors=procs)
NewRoot(z, procs) ==
    /\ grids = <<z>>
    /\ layers = <<MapObject(1, z, "terrain", NoneV, NoneV, 100, "dem", procs, FALSE)>>
    /\ origin = <<RootOrigin>>
    /\ last = [op |-> "init"]
    /\ pc = "idle" /\ mode = "none" /\ stack = <<>> /\ result = <<>>
    /\ invoked = <<>> /\ raised = ""
    /\ NoFig

\* Expansion of a MapObject whose processors produce other MapObjects:
\* hillshade, scale (not 2D-compatible) and a caller-defined processor
\* that is not 3D-compatible.
TreeCatalogue == {hillshade_processor(315), scale(2), custom(TRUE, FALSE)}
Init ==
    \E procs \in ListsOver(TreeCatalogue) :
        NewRoot([i \in Idx |-> Fin(i % 2)], procs)
Next == WalkStart \/ WalkInvoke \/ WalkDescend \/ WalkReturn
Spec == Init /\ [][Next]_vars

\* Expansion of a MapObject whose processors change its value, with the
\* parameters of the mask processors edited before the expansion.
PipelineCatalogue ==
    {nan_above(Fin(1)), nan_above_3d_only(Fin(1)), gaussian_smooth(1),
     hillshade_processor(315)}
InitPipeline ==
    \E z \in [Idx -> FiniteCells], procs \in ListsOver(PipelineCatalogue) :
        NewRoot(z, procs)
NextPipeline == EditParam \/ WalkStart \/ WalkInvoke \/ WalkDescend \/ WalkReturn
SpecPipeline == InitPipeline /\ [][NextPipeline]_vars

\* proc.compatible_2d = b / proc.compatible_3d = b on an attached processor:
\* an assignment to the dataclass field; the string-keyed attributes that
\* __post_init__ set are not touched
EditFlag ==
    /\ pc = "idle"
    /\ \E i \in 1..Len(layers[1].processors), b \in BOOLEAN,
          f \in {"compatible_2d", "compatible_3d"} :
           /\ layers[1].processors[i].proc[f] # b
           /\ layers' = [layers EXCEPT ![1].processors[i].proc[f] = b]
           /\ last' = [op |-> "flag", pos |-> i, field |-> f, written |-> b]
    /\ UNCHANGED <<grids, origin, invoked, pc, mode, stack, result, raised, figVars>>

\* Expansion of a MapObject after the compatibility flags of its processors
\* were assigned.
FlagCatalogue == {nan_above(Fin(1)), scale(2), hillshade_processor(315)}
InitFlags ==
    \E z \in [Idx -> FiniteCells], procs \in ListsOver(FlagCatalogue) :
        NewRoot(z, procs)
NextFlags == EditFlag \/ WalkStart \/ WalkInvoke \/ WalkDescend \/ WalkReturn
SpecFlags == InitFlags /\ [][NextFlags]_vars

\* expand_plottables(mapper, mode) is called a second time on the root of
\* a finished expansion (the MapObject is added to a second figure); the
\* caller keeps the list the first call returned
WalkAgain ==
    /\ pc = "done" /\ last.op = "expand"
    /\ \E m \in {"2d", "3d"} : mode' = m
    /\ layers' = SubSeq(layers, 1, Cardinality(Roots))
    /\ origin' = SubSeq(origin, 1, Cardinality(Roots))
    /\ grids' = Sweep(grids, layers')
    /\ stack' = <<Frame(1)>>
    /\ pc' = "walk"
    /\ result' = <<>>
    /\ invoked' = <<>>
    /\ raised' = ""
    /\ last' = [op |-> "again", value |-> layers[1].value,
                z_scale_factor |-> layers[1].z_scale_factor,
                root |-> layers[1], mode |-> mode,
                values |-> [j \in DOMAIN result |-> layers[result[j]].value]]
    /\ UNCHANGED figVars

\* Two expansions of one MapObject whose processors scale, smooth, shade
\* and change the lighting.
AgainCatalogue ==
    {scale(2), gaussian_smooth(1), hillshade_processor(315), lighting_intensity_up}
InitAgain ==
    \E procs \in ListsOver(AgainCatalogue) :
        NewRoot([i \in Idx |-> Fin(i % 2)], procs)
NextAgain == WalkStart \/ WalkAgain \/ WalkInvoke \/ WalkDescend \/ WalkReturn
SpecAgain == InitAgain /\ [][NextAgain]_vars

\* Expansion of a MapObject whose processors are built-in ones of every
\* kind: mask, filter, 3D-only scale and lighting, hillshade, multishade
\* (built with two azimuths or with one).
BuiltinCatalogue ==
    {nan_above(Fin(1)), gaussian_smooth(1), scale(2), lighting_intensity_up,
     hillshade_processor(315), multishade_processor(<<315, 135>>),
     multishade_processor(<<315>>)}
InitBuiltin ==
    \E procs \in ListsOver(BuiltinCatalogue) :
        NewRoot([i \in Idx |-> Fin(i % 2)], procs)
NextBuiltin == WalkStart \/ WalkInvoke \/ WalkDescend \/ WalkReturn
SpecBuiltin == InitBuiltin /\ [][NextBuiltin]_vars

\* ---------------------------------------------------- Fig3DObject.add_maps
\* surface_map = inherited_surface if current.draped else current
surface_map_always_inherited(current, draped, inherited_surface) == inherited_surface
surface_map(current, draped, inherited_surface) ==
    IF draped THEN inherited_surface ELSE current

\* the surface handed to what a processor of current produced
next_inherited(surface_map_override, current, draped, inherited_surface) ==
    IF surface_map_override # 0 THEN surface_map_override
    ELSE IF ~draped THEN current ELSE inherited_surface

default_surface ==
    IF fig.surface_map_override # 0 THEN fig.surface_map_override ELSE fig.maps[1]

\* entering collect(current, inherited_surface): the pair is appended first
CollectFrame(current, inherited_surface) ==
    [cur |-> current, pi |-> 1, pending |-> <<>>,
     inherited |-> inherited_surface, next_inherited |-> inherited_surface]
Pair(current, inherited_surface) ==
    <<current, surface_map(current, layers[current].draped, inherited_surface)>>

\* one iteration of `for mapper in map_list_raw`
CollectRoot ==
    /\ pc \in {"idle", "collect"} /\ stack = <<>>
    /\ fig.next <= Len(fig.maps)
    /\ LET m == fig.maps[fig.next]
       IN /\ stack' = <<CollectFrame(m, default_surface)>>
          /\ plot_list' = Append(plot_list, Pair(m, default_surface))
    /\ fig' = [fig EXCEPT !.next = @ + 1]
    /\ pc' = "collect" /\ mode' = "3d"
    /\ UNCHANGED <<grids, layers, origin, invoked, result, last, raised, images, workflow>>

\* one iteration of `for proc in current.processors` in collect
CollectInvoke ==
    /\ pc = "collect" /\ stack # <<>> /\ Top.pending = <<>>
    /\ Top.pi <= Len(layers[Top.cur].processors)
    /\ LET cur == Top.cur
           p == processors_at(layers[cur], Top.pi)
       IN IF ~_processor_is_compatible(p, "3d")
          THEN /\ stack' = SetTop([Top EXCEPT !.pi = @ + 1])
               /\ UNCHANGED <<grids, layers, origin, invoked>>
          ELSE \E o \in Outcomes(p, layers[cur], grids[layers[cur].grid],
                                 FreshGrid(layers), Len(layers), Len(stack),
                                 BOOLEAN, {"x1"}) :
                 /\ layers' = [layers EXCEPT ![cur] = o.mapper] \o o.made
                 /\ grids' = IF o.z = <<>> THEN grids
                             ELSE PutGrid(grids, FreshGrid(layers), o.z[1])
                 /\ origin' = origin \o
                        [k \in 1..Len(o.made) |->
                            [parent |-> cur, pos |-> Top.pi, seen |-> layers[cur].value]]
                 /\ invoked' = Append(invoked,
                        [layer |-> cur, pos |-> Top.pi, self |-> p.params,
                         before |-> layers[cur].value, after |-> o.mapper.value,
                         raises |-> o.raises, warned |-> o.warned])
                 /\ stack' = SetTop(
                        [Top EXCEPT !.pi = @ + 1,
                                    !.pending = IF o.none THEN <<>> ELSE o.produced,
                                    !.next_inherited =
                                        next_inherited(fig.surface_map_override, cur,
                                                       o.mapper.draped, Top.inherited)])
    /\ UNCHANGED <<pc, mode, result, last, raised, figVars>>

\* one iteration of `for item in produced_list` in collect
CollectDescend ==
    /\ pc = "collect" /\ stack # <<>> /\ Top.pending # <<>>
    /\ LET item == Head(Top.pending)
           rest == SetTop([Top EXCEPT !.pending = Tail(@)])
       IN IF is_plottable(item)
          THEN /\ stack' = Append(rest, CollectFrame(item.id, Top.next_inherited))
               /\ plot_list' = Append(plot_list, Pair(item.id, Top.next_inherited))
          ELSE /\ stack' = rest
               /\ UNCHANGED plot_list
    /\ UNCHANGED <<grids, layers, origin, invoked, pc, mode, result, last, raised, fig, images, workflow>>

\* collect returns; after the last map the pairs are handed to the plotter
CollectReturn ==
    /\ pc = "collect" /\ stack # <<>> /\ Top.pending = <<>>
    /\ Top.pi > Len(layers[Top.cur].processors)
    /\ stack' = SubSeq(stack, 1, Len(stack) - 1)
    /\ pc' = IF Len(stack) = 1 /\ fig.next > Len(fig.maps) THEN "done" ELSE "collect"
    /\ UNCHANGED <<grids, layers, origin, invoked, mode, result, last, raised, figVars>>

MapData == [i \in Idx |-> Fin(i % 2)]
\* the second map of a call: a draped overlay or a surface with a hillshade
SecondMaps ==
    {[draped |-> TRUE, processors |-> <<>>],
     [draped |-> FALSE, processors |-> <<hillshade_processor(315)>>]}

\* the processors of the first map of a call
FirstMapProcessors ==
    {<<>>, <<hillshade_processor(315)>>, <<custom(TRUE, TRUE)>>,
     <<custom(TRUE, TRUE), hillshade_processor(315)>>}

\* fig.add_maps(m1) or fig.add_maps(m1, m2), with or without surface_map=s;
\* the names hillshade generates play no part here, one name stands for all
InitFig3D ==
    \E procs \in FirstMapProcessors,
       draped \in BOOLEAN, n \in 1..2, second \in SecondMaps, override \in BOOLEAN :
        LET m1 == [MapObject(1, MapData, "terrain", NoneV, NoneV, 100, "dem", procs, FALSE)
                       EXCEPT !.draped = draped]
            m2 == [MapObject(2, MapData, "terrain", NoneV, NoneV, 100, "overlay",
                             second.processors, FALSE) EXCEPT !.draped = second.draped]
            s == MapObject(n + 1, MapData, "terrain", NoneV, NoneV, 100, "surface",
                           <<>>, FALSE)
            maps == IF n = 1 THEN <<m1>> ELSE <<m1, m2>>
        IN /\ layers = IF override THEN Append(maps, s) ELSE maps
           /\ grids = [g \in DOMAIN layers |-> MapData]
           /\ origin = [g \in DOMAIN layers |-> RootOrigin]
           /\ fig = [maps |-> [k \in 1..n |-> k],
                     surface_map_override |-> IF override THEN n + 1 ELSE 0,
                     next |-> 1, drawn |-> 0]
           /\ plot_list = <<>> /\ images = <<>> /\ workflow = NoWorkflow
           /\ last = [op |-> "init"]
           /\ pc = "idle" /\ mode = "none" /\ stack = <<>> /\ result = <<>>
           /\ invoked = <<>> /\ raised = ""

NextFig3D == CollectRoot \/ CollectInvoke \/ CollectDescend \/ CollectReturn
SpecFig3D == InitFig3D /\ [][NextFig3D]_vars

\* ------------------------------------- the collector and the engine
\* After expand_plottables(m, mode="3d") has returned, a MapObject built
\* as m was built is added to a Fig3DObject: fig.add_maps(m2).  The list
\* and the processor calls of the expansion are kept for comparison.
AddMapsAfterWalk ==
    /\ pc = "done" /\ last.op = "expand" /\ mode = "3d"
    /\ layers' = <<MapObject(1, grids[1], "terrain", NoneV, NoneV, 100, "dem",
                             layers[1].processors, FALSE)>>
    /\ origin' = <<RootOrigin>>
    /\ grids' = Sweep(grids, layers')
    /\ fig' = [maps |-> <<1>>, surface_map_override |-> 0, next |-> 1, drawn |-> 0]
    /\ plot_list' = <<>>
    /\ stack' = <<>>
    /\ pc' = "collect"
    /\ invoked' = <<>>
    /\ result' = <<>>
    /\ last' = [op |-> "add_maps", expected |-> result,
                values |-> [j \in DOMAIN result |-> layers[result[j]]],
                calls |-> invoked]
    /\ UNCHANGED <<mode, raised, images, workflow>>

\* processors that return None or one MapObject, a 3D-only one, and one
\* that is not 3D-compatible
RefineCatalogue ==
    {scale(2), gaussian_smooth(1), hillshade_processor(315),
     multishade_processor(<<315, 135>>), nan_above(Fin(1)), custom(TRUE, FALSE)}
InitRefine ==
    \E procs \in ListsOver(RefineCatalogue) :
        NewRoot([i \in Idx |-> Fin(i % 2)], procs)
NextRefine ==
    \/ WalkStart \/ WalkInvoke \/ WalkDescend \/ WalkReturn
    \/ AddMapsAfterWalk
    \/ CollectRoot \/ CollectInvoke \/ CollectDescend \/ CollectReturn
SpecRefine == InitRefine /\ [][NextRefine]_vars

\* ---------------------------------------------------- Fig2DObject.add_maps
\* self.images[mapper] = im on a dict: the entry whose key has the hash of
\* mapper and is mapper or equals it gets the new value and keeps its key;
\* when there is none a new entry is added
Slot(d, ls, key) ==
    {i \in DOMAIN d : /\ __hash__(ls[d[i].key]) = __hash__(ls[key])
                      /\ (d[i].key = key \/ __eq__(ls[d[i].key], ls[key]))}
__setitem__(d, ls, key, val) ==
    IF Slot(d, ls, key) # {}
    THEN [d EXCEPT ![CHOOSE i \in Slot(d, ls, key) : TRUE].val = val]
    ELSE Append(d, [key |-> key, val |-> val])

\* plot_list.extend(expand_plottables(mapper, mode="2d")): the call
Expand2D ==
    /\ pc = "idle" /\ fig.next <= Len(fig.maps)
    /\ stack' = <<Frame(fig.maps[fig.next])>>
    /\ pc' = "walk" /\ mode' = "2d"
    /\ result' = <<>> /\ invoked' = <<>> /\ raised' = ""
    /\ last' = [op |-> "expand", value |-> layers[fig.maps[fig.next]].value,
                z_scale_factor |-> layers[fig.maps[fig.next]].z_scale_factor]
    /\ UNCHANGED <<grids, layers, origin, figVars>>

\* plot_list.extend(expand_plottables(mapper, mode="2d")): the extension
Extend2D ==
    /\ pc = "done"
    /\ plot_list' = plot_list \o result
    /\ fig' = [fig EXCEPT !.next = @ + 1]
    /\ pc' = "idle"
    /\ UNCHANGED <<grids, layers, origin, invoked, mode, stack, result, last, raised, images, workflow>>

\* one iteration of `for mapper in plot_list`: the image is drawn and kept
Imshow ==
    /\ pc = "idle" /\ fig.next > Len(fig.maps)
    /\ fig.drawn < Len(plot_list)
    /\ images' = __setitem__(images, layers, plot_list[fig.drawn + 1], fig.drawn + 1)
    /\ fig' = [fig EXCEPT !.drawn = @ + 1]
    /\ UNCHANGED <<grids, layers, origin, invoked, pc, mode, stack, result, last, raised, plot_list, workflow>>

\* the names a caller gives to the maps, one of which hillshade may generate
GivenNames == {"dem", "x1"}

\* fig.add_maps(ax, m1) or fig.add_maps(ax, m1, m2): maps over different
\* Grids, named by the caller, with or without a hillshade processor
InitFig2D ==
    \E n \in 1..2, names \in [1..2 -> GivenNames],
       procs \in [1..2 -> {<<>>, <<hillshade_processor(315)>>}] :
        /\ grids = [g \in 1..n |-> [i \in Idx |-> Fin((i + g) % 2)]]
        /\ layers = [g \in 1..n |->
                        MapObject(g, grids[g], "terrain", NoneV, NoneV, 100, names[g],
                                  procs[g], FALSE)]
        /\ origin = [g \in 1..n |-> RootOrigin]
        /\ fig = [maps |-> [k \in 1..n |-> k], surface_map_override |-> 0,
                  next |-> 1, drawn |-> 0]
        /\ plot_list = <<>> /\ images = <<>> /\ workflow = NoWorkflow
        /\ last = [op |-> "init"]
        /\ pc = "idle" /\ mode = "none" /\ stack = <<>> /\ result = <<>>
        /\ invoked = <<>> /\ raised = ""

NextFig2D == Expand2D \/ WalkInvoke \/ WalkDescend \/ WalkReturn \/ Extend2D \/ Imshow
SpecFig2D == InitFig2D /\ [][NextFig2D]_vars

\* ------------------------------------------------------------- multishade
\* Expansion of a MapObject that carries a multishade processor, built
\* with two azimuths or with another number of them, alone, after a mask
\* or before a hillshade; the Grid may hold NaN cells.
ShadeProcessors ==
    {multishade_processor(<<315, 135>>), multishade_processor(<<315, 225>>),
     multishade_processor(<<315>>), multishade_processor(<<315, 135, 45>>)}
ShadeLists ==
    UNION {{<<p>>, <<nan_above(Fin(1)), p>>, <<p, hillshade_processor(315)>>} :
               p \in ShadeProcessors}
\* the shades the averaging is applied to on its own
ShadeCells == {Fin(0), Fin(2), NaN}
ShadeArrays == {[i \in Idx |-> IF i = 1 THEN a ELSE b] : a, b \in ShadeCells}

InitShade ==
    \E z \in [Idx -> FiniteCells \cup {NaN}], procs \in ShadeLists :
        NewRoot(z, procs)

\* the averaging step of multishade on two arrays of shades
Average ==
    /\ pc = "idle" /\ last.op = "init"
    /\ \E shade1, shade2 \in ShadeArrays :
           last' = [op |-> "average", shade1 |-> shade1, shade2 |-> shade2,
                    averaged |-> average(shade1, shade2)]
    /\ UNCHANGED <<heapVars, walkVars, figVars>>

NextShade == Average \/ WalkStart \/ WalkInvoke \/ WalkDescend \/ WalkReturn
SpecShade == InitShade /\ [][NextShade]_vars

\* --------------------------------------------------------- lighting_control
NoLighting ==
    [enabled |-> "None", ambient |-> NoneV, diffuse |-> NoneV, specular |-> NoneV,
     specular_power |-> NoneV, smooth_shading |-> "None", eye_dome_lighting |-> "None",
     light_azimuth |-> NoneV, light_elevation |-> NoneV, light_intensity |-> NoneV]
\* every argument given, one of them out of its range
AllLighting ==
    [enabled |-> "None", ambient |-> Fin(50), diffuse |-> Fin(150), specular |-> Fin(30),
     specular_power |-> Fin(500), smooth_shading |-> "True", eye_dome_lighting |-> "True",
     light_azimuth |-> Fin(9000), light_elevation |-> Fin(3500), light_intensity |-> Fin(110)]
\* no argument, each argument alone, all arguments; enabled None, True, False
LightingArgs ==
    {[a EXCEPT !.enabled = e] :
        e \in {"None", "True", "False"},
        a \in {NoLighting, AllLighting} \cup
              {[NoLighting EXCEPT ![f] = AllLighting[f]] : f \in DOMAIN NoLighting \ {"enabled"}}}

InitLighting ==
    /\ grids = <<MapData>>
    /\ layers = <<MapObject(1, MapData, "terrain", NoneV, NoneV, 100, "dem", <<>>, FALSE)>>
    /\ last = [op |-> "init"]
    /\ IdleWalk /\ NoFig

\* proc = lighting_control(**args); proc(mapper)
CallLighting ==
    /\ \E a \in LightingArgs :
           /\ layers' = <<__call__(lighting_control(a), layers[1], grids[1], "-", 1).mapper>>
           /\ last' = [op |-> "call", proc |-> lighting_control(a), before |-> layers[1]]
    /\ UNCHANGED <<grids, walkVars, figVars>>

NextLighting == CallLighting
SpecLighting == InitLighting /\ [][NextLighting]_vars

\* ------------------------------------------------------ material fields
\* MapObject.__init__ with the four material arguments given: each is
\* stored as float(argument)
__init__material(mapper, ambient, diffuse, specular, specular_power) ==
    [mapper EXCEPT !.ambient = ambient, !.diffuse = diffuse,
                   !.specular = specular, !.specular_power = specular_power]
MaterialFields == {"ambient", "diffuse", "specular", "specular_power"}
\* the setter of a material field
set_material(mapper, f, v) ==
    CASE f = "ambient" -> set_ambient(mapper, v)
      [] f = "diffuse" -> set_diffuse(mapper, v)
      [] f = "specular" -> set_specular(mapper, v)
      [] f = "specular_power" -> set_specular_power(mapper, v)

\* setter and processor calls made on one MapObject
MaxCalls == 3
\* the arguments of the constructor: the defaults, or values off the ranges
AmbientArgs == {-20, 15, 150}
DiffuseArgs == {80, 130}
SpecularArgs == {10, 120}
SpecularPowerArgs == {-100, 1000}
\* the values assigned through a setter
MaterialValues == {-50, 250}
MaterialProcessors ==
    {lighting_intensity_up, lighting_intensity_down, lighting_brighten, lighting_darken,
     lighting_control([NoLighting EXCEPT !.enabled = "False"]),
     lighting_control([NoLighting EXCEPT !.ambient = Fin(150), !.specular_power = Fin(-100)])}

\* mapper = MapObject(grid, ambient=..., diffuse=..., specular=...,
\* specular_power=...)
InitMaterial ==
    \E a \in AmbientArgs, d \in DiffuseArgs, s \in SpecularArgs, sp \in SpecularPowerArgs :
        /\ grids = <<MapData>>
        /\ layers = <<__init__material(
                          MapObject(1, MapData, "terrain", NoneV, NoneV, 100, "dem", <<>>, FALSE),
                          a, d, s, sp)>>
        /\ last = [op |-> "init", field |-> "", before |-> <<>>, n |-> 0]
        /\ IdleWalk /\ NoFig

\* mapper.ambient = v, and likewise diffuse, specular, specular_power
SetMaterial ==
    /\ last.n < MaxCalls
    /\ \E f \in MaterialFields, v \in MaterialValues :
           /\ layers' = <<set_material(layers[1], f, v)>>
           /\ last' = [op |-> "set", field |-> f, before |-> layers[1], n |-> last.n + 1]
    /\ UNCHANGED <<grids, walkVars, figVars>>

\* proc(mapper) for a lighting processor
CallMaterial ==
    /\ last.n < MaxCalls
    /\ \E p \in MaterialProcessors :
           /\ layers' = <<__call__(p, layers[1], grids[1], "-", 1).mapper>>
           /\ last' = [op |-> "call", field |-> p.proc.name, before |-> layers[1], n |-> last.n + 1]
    /\ UNCHANGED <<grids, walkVars, figVars>>

NextMaterial == SetMaterial \/ CallMaterial
SpecMaterial == InitMaterial /\ [][NextMaterial]_vars

\* -------------------------------------------------------------------- scale
\* Expansion of a MapObject with scale processors of two factors, whose
\* z_scale_factor was 1 (as constructed) or assigned before the expansion.
ScaleCatalogue == {scale(2), scale(3), hillshade_processor(315)}
ScaleFactors == {1, 5}
InitScale ==
    \E procs \in ListsOver(ScaleCatalogue), f \in ScaleFactors :
        /\ grids = <<MapData>>
        /\ layers = <<[MapObject(1, MapData, "terrain", NoneV, NoneV, 100, "dem", procs, FALSE)
                         EXCEPT !.z_scale_factor = f]>>
        /\ origin = <<RootOrigin>>
        /\ last = [op |-> "init"]
        /\ IdleWalk /\ NoFig
NextScale == WalkStart \/ WalkInvoke \/ WalkDescend \/ WalkReturn
SpecScale == InitScale /\ [][NextScale]_vars

\* ================================================================ workflow
\* Python values of a workflow document and of the caller's input values
PyStr(x) == [py |-> "str", s |-> x, n |-> 0, items |-> <<>>]
PyInt(n) == [py |-> "int", s |-> "", n |-> n, items |-> <<>>]
PyFloat(n) == [py |-> "float", s |-> "", n |-> n, items |-> <<>>]
PyBool(b) == [py |-> "bool", s |-> "", n |-> IF b THEN 1 ELSE 0, items |-> <<>>]
PyList(items) == [py |-> "list", s |-> "", n |-> 0, items |-> items]
PyNone == [py |-> "NoneType", s |-> "", n |-> 0, items |-> <<>>]
\* the dict {"$ref": name}
PyRef(name) == [py |-> "dict", s |-> name, n |-> 0, items |-> <<>>]

\* the decimal literals among the strings of the model
IntLiterals == [x \in {"0", "1", "2", "7"} |->
                   CASE x = "0" -> 0 [] x = "1" -> 1 [] x = "2" -> 2 [] x = "7" -> 7]
\* str(raw)
py_str(raw) ==
    CASE raw.py = "str" -> raw.s
      [] raw.py = "int" -> ToString(raw.n)
      [] raw.py = "float" -> ToString(raw.n) \o ".0"
      [] raw.py = "bool" -> IF raw.n = 1 THEN "True" ELSE "False"
      [] raw.py = "NoneType" -> "None"
      [] OTHER -> "[...]"
\* str.lower() on the strings of the model
py_lower(x) ==
    CASE x = "Yes" -> "yes" [] x = "True" -> "true" [] x = "False" -> "false"
      [] OTHER -> x
Returned(value) == [raises |-> "", value |-> value]
Raised(error) == [raises |-> error, value |-> PyNone]
\* int(raw)
py_int(raw) ==
    CASE raw.py = "str" ->
             IF raw.s \in DOMAIN IntLiterals THEN Returned(PyInt(IntLiterals[raw.s]))
             ELSE Raised("ValueError")
      [] raw.py \in {"int", "float", "bool"} -> Returned(PyInt(raw.n))
      [] OTHER -> Raised("TypeError")
\* float(raw)
py_float(raw) ==
    CASE raw.py = "str" ->
             IF raw.s \in DOMAIN IntLiterals THEN Returned(PyFloat(IntLiterals[raw.s]))
             ELSE Raised("ValueError")
      [] raw.py \in {"int", "float", "bool"} -> Returned(PyFloat(raw.n))
      [] OTHER -> Raised("TypeError")
\* json.loads(text)
json_loads(text) ==
    CASE text \in DOMAIN IntLiterals -> Returned(PyInt(IntLiterals[text]))
      [] text = "true" -> Returned(PyBool(TRUE))
      [] text = "[1, 2]" -> Returned(PyList(<<PyInt(1), PyInt(2)>>))
      [] OTHER -> Raised("ValueError")

\* a variant that returns every raw value as it is
_parse_value_raw(raw, value_type) == Returned(raw)
_parse_value(raw, value_type) ==
    CASE value_type = "path" -> Returned(PyStr(py_str(raw)))
      [] value_type = "str" -> Returned(PyStr(py_str(raw)))
      [] value_type = "int" -> py_int(raw)
      [] value_type = "float" -> py_float(raw)
      [] value_type = "bool" ->
             IF raw.py = "bool" THEN Returned(raw)
             ELSE IF py_lower(py_str(raw)) \in {"true", "1", "yes", "y"}
                  THEN Returned(PyBool(TRUE))
             ELSE IF py_lower(py_str(raw)) \in {"false", "0", "no", "n"}
                  THEN Returned(PyBool(FALSE))
             ELSE Raised("ValueError")
      [] value_type = "json" ->
             IF raw.py = "str" THEN json_loads(raw.s) ELSE Returned(raw)
      [] OTHER -> Returned(raw)

\* an entry of spec["inputs"]: name -> {"type": ..., "default": ...}; a key the
\* entry does not hold is "absent"
InputSpec(name, type, default) == [name |-> name, type |-> type, default |-> default]
Absent == [py |-> "absent", s |-> "", n |-> 0, items |-> <<>>]
\* spec.get("type", "str")
input_type(spec) == IF spec.type = "absent" THEN "str" ELSE spec.type

\* Workflow.resolve_inputs: the loop over input_specs().items() from entry i,
\* with the dict built so far
RECURSIVE resolve_inputs_from(_, _, _, _)
resolve_inputs_from(input_specs, provided, i, resolved) ==
    IF i > Len(input_specs) THEN [raises |-> "", resolved |-> resolved]
    ELSE IF input_specs[i].name \in DOMAIN provided
    THEN IF _parse_value(provided[input_specs[i].name], input_type(input_specs[i])).raises # ""
         THEN [raises |-> _parse_value(provided[input_specs[i].name],
                                       input_type(input_specs[i])).raises,
               resolved |-> <<>>]
         ELSE resolve_inputs_from(input_specs, provided, i + 1,
                  (input_specs[i].name :>
                       _parse_value(provided[input_specs[i].name],
                                    input_type(input_specs[i])).value) @@ resolved)
    ELSE IF input_specs[i].default # Absent
    THEN resolve_inputs_from(input_specs, provided, i + 1,
             (input_specs[i].name :> input_specs[i].default) @@ resolved)
    ELSE [raises |-> "KeyError", resolved |-> <<>>]
\* a variant that starts from the caller's dict
resolve_inputs_over_provided(spec, provided) ==
    resolve_inputs_from(spec.inputs, provided, 1, provided)
resolve_inputs(spec, provided) ==
    resolve_inputs_from(spec.inputs, provided, 1, <<>>)

\* a workflow document; a section the document does not hold is empty
WorkflowSpec(inputs, data_sources, maps, actions, run_mode) ==
    [inputs |-> inputs, data_sources |-> data_sources, maps |-> maps,
     fig2d |-> [actions |-> actions, save_path |-> "absent"], run |-> [mode |-> run_mode]]
\* the document with "save_path": path in its fig2d section
with_save_path(document, path) == [document EXCEPT !.fig2d.save_path = path]

\* ------------------------------------------------------ Workflow.build_maps
\* a variant that leaves a reference to a missing input as it is
_resolve_param_lenient(value, inputs) ==
    IF value.py = "dict" /\ value.s \in DOMAIN inputs THEN Returned(inputs[value.s])
    ELSE Returned(value)
\* _resolve_param: a dict holding "$ref" is replaced by the input it names
_resolve_param(value, inputs) ==
    IF value.py = "dict"
    THEN IF value.s \notin DOMAIN inputs THEN Raised("KeyError")
         ELSE Returned(inputs[value.s])
    ELSE Returned(value)
\* _resolve_params: a new dict with every value resolved
_resolve_params(params, inputs) ==
    IF \E key \in DOMAIN params : _resolve_param(params[key], inputs).raises # ""
    THEN [raises |-> "KeyError", value |-> <<>>]
    ELSE [raises |-> "",
          value |-> [key \in DOMAIN params |-> _resolve_param(params[key], inputs).value]]
\* what the params dict of the document holds once _resolve_params(params, ..)
\* returned resolved: the comprehension built another dict
params_after_in_place(params, resolved) == resolved
params_after(params, resolved) == params

BUILTIN_LOADERS == {"topotoolbox.read_tif", "topotoolbox.load_dem", "rasterio", "numpy"}
\* BUILTIN_LOADERS[loader_name](**params): the file at a path holds MapData;
\* a path that is no string cannot be opened
load(loader_name, params) ==
    IF DOMAIN params # {IF loader_name = "topotoolbox.load_dem" THEN "source" ELSE "path"}
    THEN [raises |-> "TypeError", z |-> <<>>]
    ELSE IF \E key \in DOMAIN params : params[key].py # "str"
    THEN [raises |-> "TypeError", z |-> <<>>]
    ELSE [raises |-> "", z |-> MapData]

\* the names of BUILTIN_PROCESSORS the model builds
BUILTIN_PROCESSORS ==
    {"nan_above", "nan_mask", "hillshade", "multishade", "scale", "double_scale"}
\* a numpy array (no JSON value)
NdArray == [py |-> "ndarray", s |-> "", n |-> 0, items |-> <<>>]
\* masknan.nan_mask(mask): mask has no default
nan_mask(mask) == build("nan_mask", TRUE, TRUE, TRUE, [mask |-> mask])
\* the keyword arguments given to a factory take the place of its defaults
with_params(p, given) ==
    [p EXCEPT !.params = [key \in DOMAIN p.params |->
                             IF key \in DOMAIN given THEN given[key] ELSE p.params[key]],
              !.built = [key \in DOMAIN p.built |->
                            IF key \in DOMAIN given THEN given[key] ELSE p.built[key]]]
without(params, key) == [k \in DOMAIN params \ {key} |-> params[k]]
Built(proc) == [raises |-> "", proc |-> proc]
NotBuilt(error) == [raises |-> error, proc |-> <<>>]
\* BUILTIN_PROCESSORS[proc_name](**params): a keyword the factory does not
\* take is a TypeError, a keyword that is not given takes its default
factory(proc_name, params) ==
    CASE proc_name = "scale" ->
             IF DOMAIN params # {"factor"} THEN NotBuilt("TypeError")
             ELSE IF py_float(params.factor).raises # ""
             THEN NotBuilt(py_float(params.factor).raises)
             ELSE Built(scale(py_float(params.factor).value.n))
      [] proc_name = "double_scale" ->
             IF DOMAIN params # {} THEN NotBuilt("TypeError") ELSE Built(scale(2))
      [] proc_name = "nan_above" ->
             IF ~(DOMAIN params \subseteq {"threshold"}) THEN NotBuilt("TypeError")
             ELSE Built(nan_above(IF "threshold" \in DOMAIN params
                                  THEN params.threshold ELSE PyFloat(0)))
      [] proc_name = "nan_mask" ->
             IF DOMAIN params # {"mask"} THEN NotBuilt("TypeError")
             ELSE Built(nan_mask(params.mask))
      [] proc_name = "hillshade" ->
             IF ~(DOMAIN params \subseteq {"azimuth", "altitude", "exaggerate", "fused"})
             THEN NotBuilt("TypeError")
             ELSE Built(with_params(hillshade_processor(IF "azimuth" \in DOMAIN params
                                                        THEN params.azimuth ELSE PyFloat(315)),
                                    params))
      [] proc_name = "multishade" ->
             IF ~(DOMAIN params \subseteq {"azimuths", "altitude", "exaggerate", "fused"})
             THEN NotBuilt("TypeError")
             ELSE IF "azimuths" \notin DOMAIN params
             THEN Built(with_params(multishade_processor(<<PyFloat(315), PyFloat(135)>>),
                                    params))
             ELSE IF params.azimuths.py # "list" THEN NotBuilt("TypeError")
             ELSE Built(with_params(multishade_processor(params.azimuths.items),
                                    without(params, "azimuths")))

\* list.append, and a variant that inserts in front
append_front(list, item) == <<item>> \o list
append(list, item) == Append(list, item)

\* an entry of spec["data_sources"], of spec["maps"], of a map's "processors"
DataSource(id, loader, params) == [id |-> id, loader |-> loader, params |-> params]
MapSpec(name, data, cmap, processors) ==
    [name |-> name, data |-> data, cmap |-> cmap, processors |-> processors]
ProcSpec(name, params) == [name |-> name, params |-> params]
Call(target, name, params) == [target |-> target, name |-> name, params |-> params]

\* the state of a running build_maps: the exception raised, the GridObjects
\* loaded and their ids (the dict grids), the MapObjects built, the calls made
\* to loaders and factories, and the document
Building(spec) ==
    [raises |-> "", grids |-> <<>>, ids |-> <<>>, maps |-> <<>>, calls |-> <<>>, spec |-> spec]
Fails(st, error) == [st EXCEPT !.raises = error]

\* `for data_id, data_spec in data_sources.items()` from entry i
loaded(st, i, resolved) ==
    IF load(st.spec.data_sources[i].loader, resolved).raises # ""
    THEN [Fails(st, load(st.spec.data_sources[i].loader, resolved).raises) EXCEPT
              !.calls = Append(@, Call("loader", st.spec.data_sources[i].loader, resolved))]
    ELSE [st EXCEPT
              !.grids = Append(@, load(st.spec.data_sources[i].loader, resolved).z),
              !.ids = Append(@, st.spec.data_sources[i].id),
              !.calls = Append(@, Call("loader", st.spec.data_sources[i].loader, resolved)),
              !.spec.data_sources[i].params = params_after(@, resolved)]
RECURSIVE load_sources(_, _, _)
load_sources(st, inputs, i) ==
    IF i > Len(st.spec.data_sources) THEN st
    ELSE IF st.spec.data_sources[i].loader \notin BUILTIN_LOADERS THEN Fails(st, "ValueError")
    ELSE IF _resolve_params(st.spec.data_sources[i].params, inputs).raises # ""
    THEN Fails(st, "KeyError")
    ELSE IF loaded(st, i, _resolve_params(st.spec.data_sources[i].params, inputs).value).raises # ""
    THEN loaded(st, i, _resolve_params(st.spec.data_sources[i].params, inputs).value)
    ELSE load_sources(loaded(st, i, _resolve_params(st.spec.data_sources[i].params, inputs).value),
                      inputs, i + 1)

\* `for proc_spec in map_spec.get("processors", [])` of map j from entry k:
\* the last MapObject of st.maps is the mapper
appended(st, j, k, resolved) ==
    IF factory(st.spec.maps[j].processors[k].name, resolved).raises # ""
    THEN [Fails(st, factory(st.spec.maps[j].processors[k].name, resolved).raises) EXCEPT
              !.calls = Append(@, Call("factory", st.spec.maps[j].processors[k].name, resolved))]
    ELSE [st EXCEPT
              !.maps[Len(st.maps)].processors =
                  append(@, factory(st.spec.maps[j].processors[k].name, resolved).proc),
              !.calls = Append(@, Call("factory", st.spec.maps[j].processors[k].name, resolved)),
              !.spec.maps[j].processors[k].params = params_after(@, resolved)]
RECURSIVE attach_processors(_, _, _, _)
attach_processors(st, inputs, j, k) ==
    IF k > Len(st.spec.maps[j].processors) THEN st
    ELSE IF st.spec.maps[j].processors[k].name \notin BUILTIN_PROCESSORS
    THEN Fails(st, "ValueError")
    ELSE IF _resolve_params(st.spec.maps[j].processors[k].params, inputs).raises # ""
    THEN Fails(st, "KeyError")
    ELSE IF appended(st, j, k,
                     _resolve_params(st.spec.maps[j].processors[k].params, inputs).value).raises # ""
    THEN appended(st, j, k, _resolve_params(st.spec.maps[j].processors[k].params, inputs).value)
    ELSE attach_processors(
             appended(st, j, k, _resolve_params(st.spec.maps[j].processors[k].params, inputs).value),
             inputs, j, k + 1)

\* the position of data_id in the dict grids
GridOf(st, data_id) == CHOOSE g \in DOMAIN st.ids : st.ids[g] = data_id
\* a map declared without "name" is constructed with name=None
NoName == "absent"
\* mapper = MapObject(grid, cmap=..., name=map_spec.get("name"), ...)
constructed(st, j, base, names) ==
    [st EXCEPT !.maps = append(@,
         MapObject(base + GridOf(st, st.spec.maps[j].data),
                   st.grids[GridOf(st, st.spec.maps[j].data)],
                   st.spec.maps[j].cmap, NoneV, NoneV, 100,
                   IF st.spec.maps[j].name = NoName THEN names[j] ELSE st.spec.maps[j].name,
                   <<>>, FALSE))]
\* `for map_spec in self.spec.get("maps", [])` from entry j; base is the
\* number of GridObjects there were, names what _generate_name would return
RECURSIVE build_map_list(_, _, _, _, _)
build_map_list(st, inputs, j, base, names) ==
    IF j > Len(st.spec.maps) THEN st
    ELSE IF \A g \in DOMAIN st.ids : st.ids[g] # st.spec.maps[j].data THEN Fails(st, "KeyError")
    ELSE IF attach_processors(constructed(st, j, base, names), inputs, j, 1).raises # ""
    THEN attach_processors(constructed(st, j, base, names), inputs, j, 1)
    ELSE build_map_list(attach_processors(constructed(st, j, base, names), inputs, j, 1),
                        inputs, j + 1, base, names)

\* Workflow.build_maps(inputs)
build_maps(spec, inputs, base, names) ==
    IF load_sources(Building(spec), inputs, 1).raises # ""
    THEN load_sources(Building(spec), inputs, 1)
    ELSE build_map_list(load_sources(Building(spec), inputs, 1), inputs, 1, base, names)

\* Workflow.from_file(path): the Workflow object, the document of the file,
\* and (a record kept for the properties) what each build_maps call that
\* returned was given and returned
from_file(document) == [spec |-> document, file |-> document, built |-> <<>>]

\* --------------------------------------------------- Workflow.resolve_inputs
InputTypes == {"absent", "path", "str", "int", "float", "bool", "json", "color"}
InputDefaults == {Absent, PyStr("x.tif")}
\* one or two declared inputs, a and b
InputDecls ==
    {<<InputSpec("a", t, d)>> : t \in InputTypes, d \in InputDefaults}
    \cup {<<InputSpec("a", t, d), InputSpec("b", u, e)>> :
              t \in InputTypes, d \in InputDefaults,
              u \in {"int", "bool"}, e \in InputDefaults}
RawValues == {PyStr("7"), PyStr("Yes"), PyStr("x"), PyInt(7), PyFloat(2), PyBool(FALSE)}
\* the caller's dict: values for a, for b and for a name that is not declared
ProvidedDicts ==
    {[n \in names |-> IF n = "a" THEN va ELSE IF n = "b" THEN vb ELSE PyStr("7")] :
         names \in SUBSET {"a", "b", "zz"}, va \in RawValues, vb \in {PyStr("1"), PyStr("x")}}
InitInputs ==
    /\ \E decl \in InputDecls :
           workflow = from_file(WorkflowSpec(decl, <<>>, <<>>, <<>>, "absent"))
    /\ grids = <<>> /\ layers = <<>> /\ last = [op |-> "init"]
    /\ pc = "idle" /\ mode = "none" /\ stack = <<>> /\ result = <<>>
    /\ invoked = <<>> /\ origin = <<>> /\ raised = ""
    /\ fig = [maps |-> <<>>, surface_map_override |-> 0, next |-> 1, drawn |-> 0]
    /\ plot_list = <<>> /\ images = <<>>
\* workflow.resolve_inputs(provided)
ResolveInputs ==
    /\ pc = "idle"
    /\ \E provided \in ProvidedDicts :
           /\ last' = [op |-> "resolve_inputs", provided |-> provided,
                       returned |-> resolve_inputs(workflow.spec, provided)]
           /\ raised' = resolve_inputs(workflow.spec, provided).raises
    /\ UNCHANGED <<heapVars, pc, mode, stack, result, invoked, origin, figVars>>
NextInputs == ResolveInputs
SpecInputs == InitInputs /\ [][NextInputs]_vars

\* ------------------------------------------------- build_maps on documents
MaxBuilds == 2
BuildInputs ==
    {<<InputSpec("dem_path", "path", PyStr("x.tif")), InputSpec("az", "float", d)>> :
         d \in {PyFloat(315), Absent}}
BuildProvided ==
    {<<>>, [n \in {"az"} |-> PyStr("7")], [n \in {"dem_path", "zz"} |-> PyStr("y.tif")]}
OneParam(key, value) == [k \in {key} |-> value]
BuildSources ==
    {<<DataSource("dem", loader, OneParam("path", path))>> :
         loader \in {"rasterio", "gdal"},
         path \in {PyRef("dem_path"), PyRef("nope"), PyStr("z.tif")}}
    \cup {<<DataSource("aux", "numpy", OneParam("path", PyStr("a.npy"))),
            DataSource("dem", "rasterio", OneParam("path", PyRef("dem_path")))>>}
BuildProcs ==
    {ProcSpec("scale", OneParam("factor", PyInt(2))),
     ProcSpec("scale", OneParam("factor", PyRef("az"))),
     ProcSpec("double_scale", <<>>),
     ProcSpec("nan_above", <<>>),
     ProcSpec("hillshade", OneParam("azimuth", PyRef("az"))),
     ProcSpec("hillshade", OneParam("azimuth", PyRef("nope"))),
     ProcSpec("multishade", OneParam("azimuths", PyList(<<PyRef("az"), PyFloat(135)>>))),
     ProcSpec("sharpen", <<>>)}
BuildProcLists ==
    {<<>>} \cup {<<p>> : p \in BuildProcs}
    \cup {<<p, ProcSpec("hillshade", OneParam("azimuth", PyRef("az")))>> : p \in BuildProcs}
BuildMapLists ==
    {<<MapSpec(name, data, "terrain", procs)>> \o rest :
         name \in {"dem", NoName}, data \in {"dem", "nodata"}, procs \in BuildProcLists,
         rest \in {<<>>, <<MapSpec("hs", "dem", "gray", <<ProcSpec("hillshade", <<>>)>>)>>}}
InitBuild ==
    /\ \E inputs \in BuildInputs, sources \in BuildSources, maps \in BuildMapLists :
           workflow = from_file(WorkflowSpec(inputs, sources, maps, <<>>, "absent"))
    /\ grids = <<>> /\ layers = <<>> /\ last = [op |-> "init"]
    /\ pc = "idle" /\ mode = "none" /\ stack = <<>> /\ result = <<>>
    /\ invoked = <<>> /\ origin = <<>> /\ raised = ""
    /\ fig = [maps |-> <<>>, surface_map_override |-> 0, next |-> 1, drawn |-> 0]
    /\ plot_list = <<>> /\ images = <<>>

BuildCalls == {k \in DOMAIN invoked : invoked[k].target = "build_maps"}
\* what build_maps leaves: the MapObjects it returned (none when it raised),
\* the calls it made, and the document
Materialized(inputs, st) ==
    /\ workflow' = [workflow EXCEPT
                        !.spec = st.spec,
                        !.built = IF st.raises # "" THEN @
                                  ELSE Append(@, [inputs |-> inputs,
                                                  maps |-> [k \in DOMAIN st.maps |->
                                                               Len(layers) + k]])]
    /\ invoked' = (invoked \o <<Call("build_maps", "", inputs)>>) \o st.calls
    /\ raised' = st.raises
    /\ IF st.raises # ""
       THEN /\ result' = <<>>
            /\ UNCHANGED <<grids, layers, origin>>
       ELSE /\ grids' = grids \o st.grids
            /\ layers' = layers \o st.maps
            /\ origin' = origin \o [k \in DOMAIN st.maps |-> RootOrigin]
            /\ result' = [k \in DOMAIN st.maps |-> Len(layers) + k]
\* workflow.build_maps(workflow.resolve_inputs(provided))
BuildMaps ==
    /\ pc = "idle" /\ Cardinality(BuildCalls) < MaxBuilds
    /\ \E provided \in BuildProvided,
          names \in [DOMAIN workflow.spec.maps -> GeneratedNames] :
           /\ resolve_inputs(workflow.spec, provided).raises = ""
           /\ Materialized(resolve_inputs(workflow.spec, provided).resolved,
                           build_maps(workflow.spec,
                                      resolve_inputs(workflow.spec, provided).resolved,
                                      Len(grids), names))
           /\ last' = [op |-> "build_maps",
                       inputs |-> resolve_inputs(workflow.spec, provided).resolved,
                       first |-> Len(invoked) + 1]
    /\ UNCHANGED <<pc, mode, stack, fig, plot_list, images>>
NextBuild == BuildMaps
SpecBuild == InitBuild /\ [][NextBuild]_vars

\* ------------------------------------------------------------ Workflow.run
\* selected_mode = mode or run_spec.get("mode", "fig2d"), and a variant in
\* which the document comes first
selected_mode_document_first(mode_arg, run_mode) ==
    IF run_mode # "absent" THEN run_mode
    ELSE IF mode_arg \in {"None", ""} THEN "fig2d" ELSE mode_arg
selected_mode(mode_arg, run_mode) ==
    IF mode_arg \notin {"None", ""} THEN mode_arg
    ELSE IF run_mode = "absent" THEN "fig2d" ELSE run_mode
\* _apply_fig2d_action on a figure of one axis
Action(type, axis) == [type |-> type, axis |-> axis]
FIG2D_ACTIONS ==
    {"title", "xlabel", "ylabel", "xlim", "ylim", "convert_ticks_to_km", "add_grid_crosses"}
_apply_fig2d_action(action) ==
    IF action.axis < 0 \/ action.axis >= 1 THEN "IndexError"
    ELSE IF action.type \notin FIG2D_ACTIONS THEN "ValueError"
    ELSE ""

\* Fig2DObject.save(self, **kwargs): the call is given positional and keyword
\* arguments; the signature takes keyword arguments only, which are
\* forwarded to savefig, whose fname is required
Fig2DObject_save(positional, kwargs) ==
    IF positional # <<>> THEN "TypeError"
    ELSE IF "fname" \notin DOMAIN kwargs THEN "TypeError"
    ELSE ""
\* an activation of run: its arguments, where it is, and its locals
RunFrame(m, inputs) ==
    [mode |-> m, inputs |-> inputs, at |-> "build", selected |-> "", maps |-> <<>>, next |-> 1]
Event(target, name) == Call(target, name, <<>>)
\* an exception leaves every activation of run
Unwind(error) == pc' = "idle" /\ stack' = <<>> /\ raised' = error

ModeArgs == {"None", "", "fig2d", "fig3d", "both", "pdf"}
RunProvided == {<<>>, [n \in {"az"} |-> PyStr("7")]}
RunCalls == {k \in DOMAIN invoked : invoked[k].target = "run"}
\* workflow.run(workflow.resolve_inputs(provided), mode=m), once
RunCall ==
    /\ pc = "idle" /\ RunCalls = {}
    /\ \E provided \in RunProvided, m \in ModeArgs :
           /\ resolve_inputs(workflow.spec, provided).raises = ""
           /\ stack' = <<RunFrame(m, resolve_inputs(workflow.spec, provided).resolved)>>
           /\ invoked' = Append(invoked,
                                Call("run", m, resolve_inputs(workflow.spec, provided).resolved))
           /\ last' = [op |-> "run", mode |-> m,
                       inputs |-> resolve_inputs(workflow.spec, provided).resolved,
                       first |-> Len(invoked) + 1]
    /\ pc' = "run" /\ raised' = ""
    /\ UNCHANGED <<heapVars, mode, result, origin, figVars>>
\* maps = self.build_maps(inputs)
RunBuild ==
    /\ pc = "run" /\ Top.at = "build"
    /\ \E names \in [DOMAIN workflow.spec.maps -> GeneratedNames] :
           /\ Materialized(Top.inputs,
                           build_maps(workflow.spec, Top.inputs, Len(grids), names))
           /\ IF build_maps(workflow.spec, Top.inputs, Len(grids), names).raises # ""
              THEN pc' = "idle" /\ stack' = <<>>
              ELSE /\ stack' = SetTop([Top EXCEPT !.at = "dispatch", !.maps = result'])
                   /\ UNCHANGED pc
    /\ UNCHANGED <<last, mode, fig, plot_list, images>>
\* the branch on selected_mode; with 'both', self.run(inputs, mode="fig2d")
RunDispatch ==
    /\ pc = "run" /\ Top.at = "dispatch"
    /\ IF selected_mode(Top.mode, workflow.spec.run.mode) \in {"fig2d", "fig3d"}
       THEN /\ stack' = SetTop([Top EXCEPT
                                    !.at = "figure",
                                    !.selected = selected_mode(Top.mode, workflow.spec.run.mode)])
            /\ UNCHANGED <<pc, raised, invoked>>
       ELSE IF selected_mode(Top.mode, workflow.spec.run.mode) = "both"
       THEN /\ stack' = Append(SetTop([Top EXCEPT !.at = "both", !.selected = "both"]),
                               RunFrame("fig2d", Top.inputs))
            /\ invoked' = Append(invoked, Call("self.run", "fig2d", Top.inputs))
            /\ UNCHANGED <<pc, raised>>
       ELSE /\ Unwind("ValueError")
            /\ UNCHANGED invoked
    /\ UNCHANGED <<heapVars, last, mode, result, origin, figVars>>
\* fig = Fig2DObject(...) or fig = Fig3DObject(...)
RunFigure ==
    /\ pc = "run" /\ Top.at = "figure"
    /\ invoked' = Append(invoked, Event(IF Top.selected = "fig2d" THEN "Fig2DObject"
                                        ELSE "Fig3DObject", Top.selected))
    /\ stack' = SetTop([Top EXCEPT !.at = "add_maps"])
    /\ fig' = [maps |-> <<>>, surface_map_override |-> 0, next |-> 1, drawn |-> 0]
    /\ UNCHANGED <<heapVars, last, pc, mode, result, origin, raised, plot_list, images, workflow>>
\* fig.add_maps(fig.ax, *maps) or fig.add_maps(*maps, surface_map=...): the
\* renderer is handed the MapObjects that were built
RunAddMaps ==
    /\ pc = "run" /\ Top.at = "add_maps"
    /\ invoked' = Append(invoked, Event("add_maps", Top.selected))
    /\ fig' = [fig EXCEPT !.maps = Top.maps, !.drawn = Len(Top.maps)]
    /\ stack' = SetTop([Top EXCEPT !.at = IF Top.selected = "fig2d" THEN "actions" ELSE "show"])
    /\ UNCHANGED <<heapVars, last, pc, mode, result, origin, raised, plot_list, images, workflow>>
\* one iteration of `for action in fig_spec.get("actions", [])`
RunAction ==
    /\ pc = "run" /\ Top.at = "actions"
    /\ IF Top.next > Len(workflow.spec.fig2d.actions)
       THEN /\ stack' = SetTop([Top EXCEPT !.at = "save"])
            /\ UNCHANGED <<pc, raised, invoked>>
       ELSE IF _apply_fig2d_action(workflow.spec.fig2d.actions[Top.next]) # ""
       THEN /\ Unwind(_apply_fig2d_action(workflow.spec.fig2d.actions[Top.next]))
            /\ UNCHANGED invoked
       ELSE /\ invoked' = Append(invoked,
                                 Event("action", workflow.spec.fig2d.actions[Top.next].type))
            /\ stack' = SetTop([Top EXCEPT !.next = @ + 1])
            /\ UNCHANGED <<pc, raised>>
    /\ UNCHANGED <<heapVars, last, mode, result, origin, figVars>>
\* if fig_spec.get("save_path"): fig.save(fig_spec["save_path"])
RunSave ==
    /\ pc = "run" /\ Top.at = "save"
    /\ IF workflow.spec.fig2d.save_path \in {"absent", ""}
       THEN /\ stack' = SetTop([Top EXCEPT !.at = "show"])
            /\ UNCHANGED <<pc, raised, invoked>>
       ELSE IF Fig2DObject_save(<<workflow.spec.fig2d.save_path>>, <<>>) # ""
       THEN /\ Unwind(Fig2DObject_save(<<workflow.spec.fig2d.save_path>>, <<>>))
            /\ UNCHANGED invoked
       ELSE /\ invoked' = Append(invoked, Event("save", workflow.spec.fig2d.save_path))
            /\ stack' = SetTop([Top EXCEPT !.at = "show"])
            /\ UNCHANGED <<pc, raised>>
    /\ UNCHANGED <<heapVars, last, mode, result, origin, figVars>>
\* plt.show() / fig.show(...), then `return fig`
RunShow ==
    /\ pc = "run" /\ Top.at = "show"
    /\ invoked' = Append(invoked, Event("show", Top.selected))
    /\ stack' = SetTop([Top EXCEPT !.at = "return"])
    /\ UNCHANGED <<heapVars, last, pc, mode, result, origin, raised, figVars>>
\* a return of run; with 'both', `return self.run(inputs, mode="fig3d")`
\* follows the return of the first call
RunReturn ==
    /\ pc = "run"
    /\ \/ /\ Top.at = "return"
          /\ invoked' = Append(invoked, Event("return", Top.selected))
          /\ stack' = SubSeq(stack, 1, Len(stack) - 1)
          /\ pc' = IF Len(stack) = 1 THEN "idle" ELSE pc
       \/ /\ Top.at = "both"
          /\ invoked' = Append(invoked, Call("self.run", "fig3d", Top.inputs))
          /\ stack' = Append(SetTop([Top EXCEPT !.at = "return"]), RunFrame("fig3d", Top.inputs))
          /\ UNCHANGED pc
    /\ UNCHANGED <<heapVars, last, mode, result, origin, raised, figVars>>

\* the documents that are run: two that can be materialized, with each list
\* of recorded actions, and one for each way of failing; each with each
\* run.mode
RunInputs == <<InputSpec("dem_path", "path", PyStr("x.tif")), InputSpec("az", "float", PyFloat(315))>>
GoodSource == <<DataSource("dem", "rasterio", OneParam("path", PyRef("dem_path")))>>
GoodMap == <<MapSpec("dem", "dem", "terrain", <<ProcSpec("hillshade", OneParam("azimuth", PyRef("az")))>>)>>
RunActionLists ==
    {<<>>, <<Action("title", 0), Action("xlabel", 0)>>, <<Action("xlabel", 0), Action("zoom", 0)>>}
RunModes == {"absent", "fig3d", "both"}
RunDocuments ==
    {WorkflowSpec(RunInputs, GoodSource, maps, actions, run_mode) :
         maps \in {GoodMap,
                   <<MapSpec(NoName, "dem", "terrain",
                             <<ProcSpec("scale", OneParam("factor", PyRef("az")))>>)>>},
         actions \in RunActionLists, run_mode \in RunModes}
    \cup
    {WorkflowSpec(RunInputs, sources, GoodMap, <<Action("title", 0)>>, run_mode) :
         sources \in {<<DataSource("dem", "gdal", OneParam("path", PyRef("dem_path")))>>,
                      <<DataSource("dem", "rasterio", OneParam("path", PyRef("nope")))>>},
         run_mode \in RunModes}
    \cup
    {WorkflowSpec(RunInputs, GoodSource, <<MapSpec("dem", data, "terrain", <<p>>)>>,
                  <<Action("title", 0)>>, run_mode) :
         data \in {"dem", "nodata"},
         p \in {ProcSpec("hillshade", OneParam("azimuth", PyRef("nope"))),
                ProcSpec("sharpen", <<>>)},
         run_mode \in RunModes}
InitRun ==
    /\ \E document \in RunDocuments : workflow = from_file(document)
    /\ grids = <<>> /\ layers = <<>> /\ last = [op |-> "init"]
    /\ pc = "idle" /\ mode = "none" /\ stack = <<>> /\ result = <<>>
    /\ invoked = <<>> /\ origin = <<>> /\ raised = ""
    /\ fig = [maps |-> <<>>, surface_map_override |-> 0, next |-> 1, drawn |-> 0]
    /\ plot_list = <<>> /\ images = <<>>
NextRun ==
    \/ RunCall \/ RunBuild \/ RunDispatch \/ RunFigure \/ RunAddMaps \/ RunAction
    \/ RunSave \/ RunShow \/ RunReturn
SpecRun == InitRun /\ [][NextRun]_vars
\* ------------------------------------------------------------ entry points
\* the ways a caller starts a workflow: the command line (cli.main) and the
\* methods of Workflow called directly
\* Workflow.validate_defaults: ValueError when an input holds no "default"
validate_defaults(spec) ==
    IF \E i \in DOMAIN spec.inputs : spec.inputs[i].default = Absent
    THEN "ValueError" ELSE ""
\* the values a param file or the prompts hand to main, and the caller's dict
EntryProvided ==
    {<<>>, [n \in {"az"} |-> PyStr("7")],
     [n \in {"dem_path", "az"} |-> IF n = "az" THEN PyStr("7") ELSE PyStr("y.tif")]}
\* --mode: one of the three choices, or not given
MainModes == {"None", "fig2d", "fig3d", "both"}
\* cli.main(workflow_path, ui_mode, param_file, mode, fast)
MainCall ==
    /\ pc = "idle" /\ last.op = "init"
    /\ UNCHANGED <<heapVars, mode, result, origin, figVars>>
    /\ IF validate_defaults(workflow.spec) # ""
       THEN /\ raised' = validate_defaults(workflow.spec)
            /\ invoked' = Append(invoked, Event("main", ""))
            /\ last' = [op |-> "main"]
            /\ UNCHANGED <<pc, stack>>
       ELSE \E param_file \in {"__GENERATE__", "given"} :
            IF param_file = "__GENERATE__"
            THEN /\ invoked' = invoked \o <<Event("main", ""), Event("_write_param_file", "")>>
                 /\ last' = [op |-> "main"]
                 /\ raised' = ""
                 /\ UNCHANGED <<pc, stack>>
            ELSE \E provided \in EntryProvided, m \in MainModes :
                 IF resolve_inputs(workflow.spec, provided).raises # ""
                 THEN /\ raised' = resolve_inputs(workflow.spec, provided).raises
                      /\ invoked' = Append(invoked, Event("main", ""))
                      /\ last' = [op |-> "main"]
                      /\ UNCHANGED <<pc, stack>>
                 ELSE /\ stack' = <<RunFrame(m, resolve_inputs(workflow.spec, provided).resolved)>>
                      /\ invoked' = invoked \o
                             <<Event("main", ""),
                               Call("run", m, resolve_inputs(workflow.spec, provided).resolved)>>
                      /\ last' = [op |-> "run", mode |-> m,
                                  inputs |-> resolve_inputs(workflow.spec, provided).resolved,
                                  first |-> Len(invoked) + 2]
                      /\ pc' = "run" /\ raised' = ""
\* inputs = workflow.resolve_inputs(provided); workflow.run(inputs, mode=m),
\* called directly
DirectCall ==
    /\ pc = "idle" /\ last.op = "init"
    /\ UNCHANGED <<heapVars, mode, result, origin, figVars>>
    /\ \E provided \in EntryProvided, m \in MainModes :
           IF resolve_inputs(workflow.spec, provided).raises # ""
           THEN /\ raised' = resolve_inputs(workflow.spec, provided).raises
                /\ invoked' = Append(invoked, Event("resolve_inputs", ""))
                /\ last' = [op |-> "resolve_inputs"]
                /\ UNCHANGED <<pc, stack>>
           ELSE /\ stack' = <<RunFrame(m, resolve_inputs(workflow.spec, provided).resolved)>>
                /\ invoked' = Append(invoked,
                                     Call("run", m, resolve_inputs(workflow.spec, provided).resolved))
                /\ last' = [op |-> "run", mode |-> m,
                            inputs |-> resolve_inputs(workflow.spec, provided).resolved,
                            first |-> Len(invoked) + 1]
                /\ pc' = "run" /\ raised' = ""
\* the documents handed to the entry points: every input with a default, or
\* one of the two without
EntryInputs ==
    {<<InputSpec("dem_path", "path", dem_default), InputSpec("az", "float", az_default)>> :
         dem_default \in {PyStr("x.tif"), Absent}, az_default \in {PyFloat(315), Absent}}
EntryDocuments ==
    {WorkflowSpec(inputs, GoodSource, GoodMap, actions, run_mode) :
         inputs \in EntryInputs,
         actions \in {<<>>, <<Action("title", 0)>>},
         run_mode \in {"absent", "fig3d"}}
InitEntry ==
    /\ \E document \in EntryDocuments : workflow = from_file(document)
    /\ grids = <<>> /\ layers = <<>> /\ last = [op |-> "init"]
    /\ pc = "idle" /\ mode = "none" /\ stack = <<>> /\ result = <<>>
    /\ invoked = <<>> /\ origin = <<>> /\ raised = ""
    /\ fig = [maps |-> <<>>, surface_map_override |-> 0, next |-> 1, drawn |-> 0]
    /\ plot_list = <<>> /\ images = <<>>
NextEntry ==
    \/ MainCall \/ DirectCall
    \/ RunBuild \/ RunDispatch \/ RunFigure \/ RunAddMaps \/ RunAction
    \/ RunSave \/ RunShow \/ RunReturn
SpecEntry == InitEntry /\ [][NextEntry]_vars
\* the documents with a fig2d section that may hold a save_path
SaveDocuments ==
    {with_save_path(WorkflowSpec(RunInputs, GoodSource, GoodMap, actions, run_mode), path) :
         actions \in RunActionLists, run_mode \in RunModes,
         path \in {"absent", "", "out.png"}}
InitSave ==
    /\ \E document \in SaveDocuments : workflow = from_file(document)
    /\ grids = <<>> /\ layers = <<>> /\ last = [op |-> "init"]
    /\ pc = "idle" /\ mode = "none" /\ stack = <<>> /\ result = <<>>
    /\ invoked = <<>> /\ origin = <<>> /\ raised = ""
    /\ fig = [maps |-> <<>>, surface_map_override |-> 0, next |-> 1, drawn |-> 0]
    /\ plot_list = <<>> /\ images = <<>>
SpecSave == InitSave /\ [][NextRun]_vars
\* build_maps called before and after the run as well
NextMaterialize == BuildMaps \/ NextRun
SpecMaterialize == InitRun /\ [][NextMaterialize]_vars

\* ------------------------------------------------------------------ export
\* workflow_from_fig2d / workflow_from_fig3d: the document written from a
\* figure.  fig.maps is base_maps, the MapObjects add_maps was given.
\* vars(proc) without the base keys, as the values a document holds: scale
\* keeps float(factor), multishade keeps tuple(azimuths), the other
\* attributes are kept as they were given
vars_of(p) ==
    [key \in DOMAIN p.params |->
        IF p.proc.name = "scale" /\ key = "factor" THEN PyFloat(p.params[key])
        ELSE IF p.proc.name = "multishade" /\ key = "azimuths" THEN PyList(p.params[key])
        ELSE p.params[key]]
\* _is_jsonable: json.dumps(value) does not raise
_is_jsonable(value) == value.py # "ndarray"
\* _serialize_proc_params
_serialize_proc_params(p) ==
    [key \in {k \in DOMAIN vars_of(p) : _is_jsonable(vars_of(p)[k])} |-> vars_of(p)[key]]
\* dict[key] = entry, for a dict kept as the sequence of its entries
dict_set(dict, key, entry) ==
    IF \E i \in DOMAIN dict : dict[i][key] = entry[key]
    THEN [i \in DOMAIN dict |-> IF dict[i][key] = entry[key] THEN entry ELSE dict[i]]
    ELSE Append(dict, entry)
\* the entry of map_specs for a MapObject
map_entry(mapper) ==
    [name |-> mapper.name, data |-> mapper.name, cmap |-> mapper.cmap,
     alpha |-> mapper.alpha, cbar |-> mapper.cbar, draped |-> mapper.draped,
     ambient |-> mapper.ambient, diffuse |-> mapper.diffuse,
     specular |-> mapper.specular, specular_power |-> mapper.specular_power,
     smooth_shading |-> mapper.smooth_shading,
     eye_dome_lighting |-> mapper.eye_dome_lighting,
     light_azimuth |-> mapper.light_azimuth, light_elevation |-> mapper.light_elevation,
     light_intensity |-> mapper.light_intensity,
     processors |-> [k \in DOMAIN mapper.processors |->
                        ProcSpec(mapper.processors[k].proc.name,
                                 _serialize_proc_params(mapper.processors[k]))]]
\* _build_specs_from_maps: the loop `for mapper in maps` from entry i, with
\* the three collections built so far
RECURSIVE _build_specs_from(_, _, _, _)
_build_specs_from(maps, default_loader, i, built) ==
    IF i > Len(maps) THEN built
    ELSE _build_specs_from(maps, default_loader, i + 1,
             [inputs |-> dict_set(built.inputs, "name",
                                  InputSpec(maps[i].name \o "_path", "path",
                                            PyStr(maps[i].name \o ".tif"))),
              data_sources |-> dict_set(built.data_sources, "id",
                                  DataSource(maps[i].name, default_loader,
                                      OneParam(IF default_loader = "topotoolbox.load_dem"
                                               THEN "source" ELSE "path",
                                               PyRef(maps[i].name \o "_path")))),
              map_specs |-> Append(built.map_specs, map_entry(maps[i]))])
_build_specs_from_maps(maps, default_loader) ==
    _build_specs_from(maps, default_loader, 1,
                      [inputs |-> <<>>, data_sources |-> <<>>, map_specs |-> <<>>])
\* workflow_from_fig2d(fig) and workflow_from_fig3d(fig): kind is the mode
\* written to "run"
workflow_from_fig(base_maps, kind, default_loader) ==
    WorkflowSpec(_build_specs_from_maps(base_maps, default_loader).inputs,
                 _build_specs_from_maps(base_maps, default_loader).data_sources,
                 _build_specs_from_maps(base_maps, default_loader).map_specs,
                 <<>>, kind)
\* MapObject.cbar (setter), on a MapObject constructed with a label or None
set_cbar(mapper, label) == [k \in {"cbar"} |-> label] @@ mapper

\* p.key = value on a processor attached to a MapObject of the figure: an
\* attribute the factory set, or a new one
SetAttr ==
    /\ pc = "idle" /\ last.op \in {"init", "setattr"}
    /\ \E r \in DOMAIN fig.maps, i \in 1..MaxProcs :
           /\ i \in DOMAIN layers[fig.maps[r]].processors
           /\ \E key \in {"threshold", "alpha"} :
                  /\ key = "threshold" =>
                         layers[fig.maps[r]].processors[i].proc.name = "nan_above"
                  /\ IF key \in DOMAIN layers[fig.maps[r]].processors[i].params
                     THEN layers[fig.maps[r]].processors[i].params[key] # PyFloat(500)
                     ELSE TRUE
                  /\ layers' = [layers EXCEPT ![fig.maps[r]].processors[i].params =
                                    (key :> PyFloat(500)) @@ @]
                  /\ last' = [op |-> "setattr"]
    /\ UNCHANGED <<grids, pc, mode, stack, result, invoked, origin, raised, figVars>>
ExportLoaders == {"topotoolbox.read_tif", "topotoolbox.load_dem"}
\* workflow = workflow_from_fig2d(fig) or workflow_from_fig3d(fig)
Export ==
    /\ pc = "idle" /\ last.op \in {"init", "setattr"}
    /\ \E kind \in {"fig2d", "fig3d"}, default_loader \in ExportLoaders :
           /\ workflow' = from_file(workflow_from_fig(
                               [k \in DOMAIN fig.maps |-> layers[fig.maps[k]]],
                               kind, default_loader))
           /\ last' = [op |-> "export", kind |-> kind,
                       roots |-> [k \in DOMAIN fig.maps |-> layers[fig.maps[k]]]]
    /\ invoked' = Append(invoked, Event("export", ""))
    /\ UNCHANGED <<heapVars, pc, mode, stack, result, origin, raised, fig, plot_list, images>>
\* maps = workflow.build_maps(workflow.resolve_inputs({})) on the exported
\* workflow
Rebuild ==
    /\ pc = "idle" /\ last.op = "export"
    /\ resolve_inputs(workflow.spec, <<>>).raises = ""
    /\ Materialized(resolve_inputs(workflow.spec, <<>>).resolved,
                    build_maps(workflow.spec, resolve_inputs(workflow.spec, <<>>).resolved,
                               Len(grids), [j \in DOMAIN workflow.spec.maps |-> "x1"]))
    /\ last' = [op |-> "rebuild", kind |-> last.kind, roots |-> last.roots]
    /\ UNCHANGED <<pc, mode, stack, fig, plot_list, images>>
\* the processors attached to the MapObjects that are exported
ExportCatalogue ==
    {factory("nan_above", OneParam("threshold", PyFloat(0))).proc,
     factory("hillshade", [azimuth |-> PyFloat(315), altitude |-> PyFloat(50),
                           exaggerate |-> PyFloat(1), fused |-> PyBool(TRUE)]).proc,
     factory("multishade", [azimuths |-> PyList(<<PyFloat(315), PyFloat(135)>>),
                            altitude |-> PyFloat(50),
                            exaggerate |-> PyFloat(1), fused |-> PyBool(TRUE)]).proc,
     factory("double_scale", <<>>).proc,
     nan_mask(NdArray)}
ExportChains ==
    UNION {[1..n -> ExportCatalogue] : n \in 0..MaxProcs}
\* the figure after add_maps(first) or add_maps(first, second); a hillshade
\* the expansion derived from the first is a MapObject that is not in
\* base_maps
InitExport ==
    /\ \E chain \in ExportChains, bounds \in {<<NoneV, NoneV>>, <<Fin(0), Fin(5)>>},
          label \in {"None", "elevation"},
          second \in {"", "dem", "relief"} :
           /\ layers =
                  <<set_cbar(MapObject(1, MapData, "terrain", bounds[1], bounds[2], 100,
                                       "dem", chain, FALSE), label)>>
                  \o (IF second = "" THEN <<>>
                      ELSE <<set_cbar(MapObject(2, MapData, "gray", NoneV, NoneV, 50,
                                                second, <<>>, TRUE), "None")>>)
                  \o <<set_cbar(MapObject(1, MapData, "gray", NoneV, NoneV, 50,
                                          "y22", <<>>, FALSE), "None")>>
           /\ fig = [maps |-> IF second = "" THEN <<1>> ELSE <<1, 2>>,
                     surface_map_override |-> 0, next |-> 1, drawn |-> 0]
           /\ grids = IF second = "" THEN <<MapData>> ELSE <<MapData, MapData>>
           /\ origin = [k \in 1..(IF second = "" THEN 2 ELSE 3) |->
                            IF k = (IF second = "" THEN 2 ELSE 3)
                            THEN [parent |-> 1, pos |-> 1, seen |-> <<>>]
                            ELSE RootOrigin]
    /\ workflow = from_file(WorkflowSpec(<<>>, <<>>, <<>>, <<>>, "absent"))
    /\ last = [op |-> "init"]
    /\ pc = "idle" /\ mode = "none" /\ stack = <<>> /\ result = <<>>
    /\ invoked = <<>> /\ raised = ""
    /\ plot_list = <<>> /\ images = <<>>
NextExport == SetAttr \/ Export \/ Rebuild
SpecExport == InitExport /\ [][NextExport]_vars

\* =============================================================== properties
\* the least / greatest finite entry of an array, NaN when it has none
FiniteMin(arr) ==
    IF \A i \in Idx : arr[i].k # "fin" THEN NaN
    ELSE CHOOSE c \in Cells(arr) :
             c.k = "fin" /\ \A d \in Cells(arr) : d.k = "fin" => c.v <= d.v
FiniteMax(arr) ==
    IF \A i \in Idx : arr[i].k # "fin" THEN NaN
    ELSE CHOOSE c \in Cells(arr) :
             c.k = "fin" /\ \A d \in Cells(arr) : d.k = "fin" => c.v >= d.v

\* C5: every entry of every MapObject's value is finite or NaN, and an entry
\* that was +Inf or -Inf in the array assigned last is stored as NaN.
C5_ValueIsFiniteOrNaN ==
    /\ \A l \in DOMAIN layers : \A i \in Idx : layers[l].value[i].k \in {"fin", "nan"}
    /\ last.op \in {"set_value", "set_grid"} =>
           \A i \in last.inf : isnan(layers[1].value[i])
\* an array with an infinite entry was assigned through the value setter
C5_Witness ==
    /\ last.op = "set_value" /\ last.inf # {}
    /\ \A i \in last.inf : isnan(layers[1].value[i])

\* C6: after an assignment through the value setter or the grid setter, vmin
\* and vmax are the least and greatest finite entry of the stored value (NaN,
\* NaN when it has none) whatever they were before, and the grid setter
\* stores the new Grid's data; the constructor keeps a bound that was passed
\* and computes an omitted one from the Grid's data.
C6_BoundsFollowAssignment ==
    /\ last.op \in {"set_value", "set_grid"} =>
           /\ layers[1].vmin = FiniteMin(layers[1].value)
           /\ layers[1].vmax = FiniteMax(layers[1].value)
    /\ last.op = "set_grid" =>
           \A i \in Idx :
               LET c == grids[layers[1].grid][i]
               IN layers[1].value[i] = IF c.k = "fin" THEN c ELSE NaN
    /\ last.op = "init" =>
           /\ layers[1].vmin = IF last.vmin # NoneV THEN last.vmin
                               ELSE FiniteMin(layers[1].value)
           /\ layers[1].vmax = IF last.vmax # NoneV THEN last.vmax
                               ELSE FiniteMax(layers[1].value)
\* the value setter replaced bounds that were different before
C6_Witness ==
    /\ last.op = "set_value"
    /\ last.old[1] # layers[1].vmin /\ last.old[2] # layers[1].vmax
    /\ layers[1].vmin.k = "fin" /\ layers[1].vmax.k = "fin"

IsMaskCall == last.op = "call" /\ last.proc.proc.name \in {"nan_below", "nan_above", "nan_equal"}
\* whether the mask processor called last is meant to mask a finite cell b
Masks(b) ==
    LET n == last.proc.proc.name
    IN \/ n = "nan_below" /\ b.v <= last.proc.params.threshold.v
       \/ n = "nan_above" /\ b.v >= last.proc.params.threshold.v
       \/ n = "nan_equal" /\ b.v = last.proc.params.target.v

\* C9: nan_below(t) / nan_above(t) / nan_equal(v) set to NaN exactly the cells
\* <= t / >= t / = v and leave every other cell as it was (NaN stays NaN).
C9_MaskIsExact ==
    IsMaskCall =>
        \A i \in Idx :
            LET b == last.before[i]
            IN layers[1].value[i] = IF b.k = "fin" /\ Masks(b) THEN NaN ELSE b
\* nan_below masked a cell equal to its threshold and left another cell finite
C9_Witness ==
    /\ last.op = "call" /\ last.proc.proc.name = "nan_below"
    /\ \E i, j \in Idx :
           /\ last.before[i] = last.proc.params.threshold
           /\ isnan(layers[1].value[i])
           /\ layers[1].value[j].k = "fin"

IsHillshadeCall == last.op = "call" /\ last.proc.proc.name = "hillshade"
AllNaN(arr) == \A i \in Idx : isnan(arr[i])
\* what hillshade guarantees whatever the source value is
HillshadeFrame ==
    /\ Len(layers) = 2
    /\ layers[2].draped
    /\ layers[2].grid # layers[1].grid
    /\ layers[1].value = last.before
    /\ (\E i \in Idx : last.before[i].k = "fin") =>
           \A i \in Idx : isnan(last.before[i]) => isnan(layers[2].value[i])
\* the illumination of a level surface
FlatShade ==
    GridObject_hillshade([i \in Idx |-> Fin(0)], last.proc.params.azimuth,
                         last.proc.params.exaggerate)[1]

\* C10: hillshade returns a new draped MapObject over another Grid and leaves
\* the source value alone; NaN cells of a source with a finite cell are NaN
\* in the result; with an entirely NaN source value the result is the shading
\* of the Grid's data (compared here on Grids that are finite everywhere),
\* NaN at the Grid's NaN cells.
C10_AsStated ==
    IsHillshadeCall =>
        /\ HillshadeFrame
        /\ AllNaN(last.before) =>
               LET gz == asarray_float32(grids[layers[1].grid])
               IN /\ \A i \in Idx : isnan(gz[i]) => isnan(layers[2].value[i])
                  /\ (\A i \in Idx : gz[i].k = "fin") =>
                         layers[2].value =
                             GridObject_hillshade(gz, last.proc.params.azimuth,
                                                  last.proc.params.exaggerate)
\* What the code does in the case C10 is about: with an entirely NaN source
\* value the result is the illumination of a level surface, NaN at the
\* Grid's NaN cells, so it has a finite cell when the Grid has one.
HillshadeFallbackIsFlat ==
    IsHillshadeCall =>
        /\ HillshadeFrame
        /\ AllNaN(last.before) =>
               LET gz == asarray_float32(grids[layers[1].grid])
               IN /\ \A i \in Idx :
                         layers[2].value[i] = IF isnan(gz[i]) THEN NaN ELSE FlatShade
                  /\ (\E i \in Idx : gz[i].k = "fin") =>
                         \E i \in Idx : layers[2].value[i].k = "fin"
\* hillshade ran on an entirely NaN value over a Grid with relief
C10_Witness ==
    /\ IsHillshadeCall /\ AllNaN(last.before)
    /\ \E i, j \in Idx : /\ grids[layers[1].grid][i] = Fin(0)
                         /\ grids[layers[1].grid][j] = Fin(1)
    /\ \E i \in Idx : layers[2].value[i].k = "fin"

\* ----------------------------------------------------- expansion properties
RECURSIVE IsDerivedFrom(_, _)
\* x was produced, directly or through other MapObjects, by a processor of a
IsDerivedFrom(x, a) ==
    /\ origin[x].parent # 0
    /\ (origin[x].parent = a \/ IsDerivedFrom(origin[x].parent, a))
\* the positions the complete expansion of x takes in the result
Block(x) == {j \in DOMAIN result : result[j] = x \/ IsDerivedFrom(result[j], x)}
IsInterval(S, first) == S = first..(first + Cardinality(S) - 1)

\* C1: expand_plottables returns the root first; every MapObject of the
\* result comes after the MapObject it was derived from; the complete
\* expansion of every child is a contiguous block that starts with the
\* child; and the blocks of the children of one MapObject follow the
\* positions of the producing processors, then the order returned.
C1_ExpansionOrder ==
    pc = "done" =>
        /\ result[1] = 1
        /\ \A i, j \in DOMAIN result : result[i] = result[j] => i = j
        /\ \A i \in DOMAIN result :
               origin[result[i]].parent # 0 =>
                   \E j \in 1..(i - 1) : result[j] = origin[result[i]].parent
        /\ \A i \in DOMAIN result : IsInterval(Block(result[i]), i)
        /\ \A i, j \in DOMAIN result :
               LET x == result[i]
                   y == result[j]
               IN (/\ origin[x].parent # 0
                   /\ origin[x].parent = origin[y].parent
                   /\ \/ origin[x].pos < origin[y].pos
                      \/ origin[x].pos = origin[y].pos /\ x < y)
                  => \A a \in Block(x), b \in Block(y) : a < b
\* An expansion with children of two processors of the root, the earlier of
\* which has a child of its own.
C1_Witness ==
    /\ pc = "done"
    /\ \E x, y, g \in DOMAIN layers :
           /\ origin[x].parent = 1 /\ origin[y].parent = 1
           /\ origin[x].pos < origin[y].pos
           /\ origin[g].parent = x
           /\ \E i, j, k \in DOMAIN result :
                  result[i] = x /\ result[j] = g /\ result[k] = y

\* the compatibility flags the processor was built with
IsCompatible(p, m) ==
    \/ m = "none"
    \/ m = "2d" /\ p.proc.compatible_2d
    \/ m = "3d" /\ p.proc.compatible_3d
InvokedAt(x, i) == {k \in DOMAIN invoked : invoked[k].layer = x /\ invoked[k].pos = i}
RECURSIVE Power(_, _)
Power(b, n) == IF n = 0 THEN 1 ELSE b * Power(b, n - 1)

\* C3: an expansion in mode 2d (3d) invokes a processor iff it is
\* 2D-compatible (3D-compatible), and with mode None every attached
\* processor: only compatible processors are invoked, every child was
\* produced by a compatible processor, and when the expansion is over every
\* compatible processor of every MapObject of the result was invoked once
\* and the root was scaled by its compatible scale processors only.
C3_CompatibilityGatesInvocation ==
    /\ \A k \in DOMAIN invoked :
           IsCompatible(layers[invoked[k].layer].processors[invoked[k].pos], mode)
    /\ \A d \in DOMAIN layers :
           origin[d].parent # 0 =>
               /\ IsCompatible(layers[origin[d].parent].processors[origin[d].pos], mode)
               /\ InvokedAt(origin[d].parent, origin[d].pos) # {}
    /\ pc = "done" =>
           /\ \A j \in DOMAIN result :
                  \A i \in DOMAIN layers[result[j]].processors :
                      Cardinality(InvokedAt(result[j], i)) =
                          IF IsCompatible(layers[result[j]].processors[i], mode) THEN 1 ELSE 0
           /\ layers[1].z_scale_factor =
                  last.z_scale_factor *
                  Power(2, Cardinality({i \in DOMAIN layers[1].processors :
                                           /\ layers[1].processors[i].proc.name = "scale"
                                           /\ IsCompatible(layers[1].processors[i], mode)}))
\* A finished 2D expansion that skipped a scale processor and invoked the
\* processor after it.
C3_Witness ==
    /\ pc = "done" /\ mode = "2d"
    /\ \E i \in DOMAIN layers[1].processors :
           /\ layers[1].processors[i].proc.name = "scale"
           /\ InvokedAt(1, i) = {}
           /\ InvokedAt(1, i + 1) # {}
    /\ layers[1].z_scale_factor = 1

\* the value of the root after its compatible processors at positions 1..k
RECURSIVE ValueAfter(_)
ValueAfter(k) ==
    IF k = 0 THEN last.value
    ELSE LET p == layers[1].processors[k]
             before == [layers[1] EXCEPT !.value = ValueAfter(k - 1)]
         IN IF IsCompatible(p, mode)
            THEN __call__(p, before, grids[1], "x1", 1).mapper.value
            ELSE ValueAfter(k - 1)
\* the invocations on the root, in the order they were made
OnRoot == SelectSeq(invoked, LAMBDA e : e.layer = 1)

\* C2: the processors of a MapObject are invoked in attachment order and
\* each sees the value its predecessors left: the invocation at position i
\* starts from the value as mutated by the compatible processors at
\* positions below i, and a child produced at position i is the hillshade
\* of exactly that value, so a cell masked by an earlier nan_above is NaN in
\* the hillshade whenever the masked value keeps a finite cell.
C2_ProcessorsSeeEarlierMutations ==
    pc # "idle" =>
        /\ \A k \in 1..(Len(OnRoot) - 1) : OnRoot[k].pos < OnRoot[k + 1].pos
        /\ \A k \in DOMAIN OnRoot :
               /\ OnRoot[k].before = ValueAfter(OnRoot[k].pos - 1)
               /\ OnRoot[k].after = ValueAfter(OnRoot[k].pos)
        /\ \A d \in DOMAIN layers :
               origin[d].parent = 1 =>
                   LET i == origin[d].pos
                       p == layers[1].processors[i]
                       seen == ValueAfter(i - 1)
                   IN /\ p.proc.name \in Shaders
                      /\ origin[d].seen = seen
                      /\ layers[d].value =
                             __call__(p, [layers[1] EXCEPT !.value = seen], grids[1],
                                      layers[d].name, layers[d].grid).items[1].value
                      /\ (\E c \in Idx : isfinite(seen[c])) =>
                             \A c \in Idx : isnan(seen[c]) => isnan(layers[d].value[c])
\* nan_above masked a cell of the root and the hillshade after it is NaN
\* there and finite elsewhere.
C2_Witness ==
    /\ pc = "done"
    /\ \E d \in DOMAIN layers, c, f \in Idx :
           /\ origin[d].parent = 1 /\ origin[d].pos > 1
           /\ layers[1].processors[origin[d].pos - 1].proc.name = "nan_above"
           /\ isfinite(last.value[c]) /\ isnan(origin[d].seen[c])
           /\ isnan(layers[d].value[c]) /\ isfinite(layers[d].value[f])

\* C8: a parameter given to a factory is a field of the processor that can
\* be read and written, and an invocation uses the value the field has when
\* the processor is invoked: nan_above masks exactly the finite cells >= the
\* threshold the processor holds at that moment.
C8_ParamsReadAtInvocation ==
    /\ last.op = "edit" =>
           layers[1].processors[last.pos].params.threshold = last.written
    /\ \A k \in DOMAIN invoked :
           LET e == invoked[k]
               p == layers[e.layer].processors[e.pos]
           IN p.proc.name = "nan_above" =>
                  /\ e.self = p.params
                  /\ \A c \in Idx :
                         e.after[c] =
                             IF isfinite(e.before[c]) /\ e.before[c].v >= p.params.threshold.v
                             THEN NaN ELSE e.before[c]
\* nan_above was built with one threshold, edited to a lower one, and the
\* expansion masked a cell that lies between the two.
C8_Witness ==
    \E k \in DOMAIN invoked, c \in Idx :
        LET e == invoked[k]
            p == layers[e.layer].processors[e.pos]
        IN /\ p.proc.name = "nan_above"
           /\ p.params.threshold # p.built.threshold
           /\ isfinite(e.before[c])
           /\ e.before[c].v >= p.params.threshold.v
           /\ e.before[c].v < p.built.threshold.v
           /\ isnan(e.after[c])

\* ------------------------------------------------------ surface properties
RECURSIVE NearestNonDraped(_)
\* the nearest ancestor of x that is not draped, 0 when there is none
NearestNonDraped(x) ==
    LET par == origin[x].parent
    IN IF par = 0 THEN 0
       ELSE IF ~layers[par].draped THEN par ELSE NearestNonDraped(par)

\* C4: add_maps of a 3D figure pairs every collected MapObject with a
\* surface: itself when it is not draped; when it is draped, the override
\* surface if one was passed, else its nearest non-draped ancestor, and for
\* a draped map passed to add_maps the first map passed.  Every MapObject
\* passed is collected.
C4_SurfacePairing ==
    /\ \A k \in DOMAIN plot_list :
           LET x == plot_list[k][1]
               surface == plot_list[k][2]
           IN /\ ~layers[x].draped => surface = x
              /\ (layers[x].draped /\ fig.surface_map_override # 0) =>
                     surface = fig.surface_map_override
              /\ (layers[x].draped /\ fig.surface_map_override = 0
                      /\ NearestNonDraped(x) # 0) =>
                     surface = NearestNonDraped(x)
              /\ (layers[x].draped /\ fig.surface_map_override = 0
                      /\ origin[x].parent = 0) =>
                     surface = fig.maps[1]
    /\ pc = "done" =>
           \A i \in DOMAIN fig.maps : \E k \in DOMAIN plot_list : plot_list[k][1] = fig.maps[i]
\* Without an override: a draped MapObject under a draped parent is paired
\* with its grandparent, and a draped second map with the first map.
C4_Witness ==
    /\ pc = "done" /\ fig.surface_map_override = 0
    /\ \E k, j \in DOMAIN plot_list :
           LET x == plot_list[k][1]
               y == plot_list[j][1]
           IN /\ layers[x].draped /\ origin[x].parent # 0
              /\ layers[origin[x].parent].draped
              /\ plot_list[k][2] = origin[origin[x].parent].parent
              /\ plot_list[k][2] # 0
              /\ y = 2 /\ layers[y].draped /\ plot_list[j][2] = 1
\* With an override: a draped MapObject is paired with the override.
C4_WitnessOverride ==
    /\ pc = "done" /\ fig.surface_map_override # 0
    /\ \E k \in DOMAIN plot_list :
           /\ layers[plot_list[k][1]].draped /\ origin[plot_list[k][1]].parent # 0
           /\ plot_list[k][2] = fig.surface_map_override

\* ----------------------------------------------------- identity properties
\* objects that are no MapObject but carry the name of one
Strangers == {[cls |-> "other", name |-> layers[x].name] : x \in DOMAIN layers}
\* the MapObjects drawn so far
Drawn == {plot_list[k] : k \in 1..fig.drawn}

\* C7: two MapObjects are equal iff their names are equal, whatever their
\* Grids, values and processors, and equal MapObjects have equal hashes; a
\* MapObject never equals an object of another class; hence the images of a
\* figure hold one entry per name drawn, whichever MapObjects carried it.
C7_IdentityIsTheName ==
    /\ \A x, y \in DOMAIN layers :
           /\ __eq__(layers[x], layers[y]) <=> layers[x].name = layers[y].name
           /\ __eq__(layers[x], layers[y]) => __hash__(layers[x]) = __hash__(layers[y])
    /\ \A x \in DOMAIN layers : \A o \in Strangers : ~__eq__(layers[x], o)
    /\ \A i, j \in DOMAIN images :
           layers[images[i].key].name = layers[images[j].key].name => i = j
    /\ \A x \in Drawn :
           \E i \in DOMAIN images : layers[images[i].key].name = layers[x].name
    /\ Len(images) = Cardinality({layers[x].name : x \in Drawn})
\* Two MapObjects over different Grids and with different values carry the
\* same name, both were drawn, and the images hold one entry for the two.
C7_Witness ==
    /\ fig.drawn = Len(plot_list) /\ fig.next > Len(fig.maps)
    /\ \E x, y \in Drawn :
           /\ x # y /\ layers[x].name = layers[y].name
           /\ layers[x].grid # layers[y].grid
           /\ layers[x].value # layers[y].value
           /\ Cardinality(Slot(images, layers, x)) = 1
           /\ Slot(images, layers, x) = Slot(images, layers, y)
    /\ \E x, y \in Drawn :
           /\ layers[x].name # layers[y].name
           /\ __hash__(layers[x]) = __hash__(layers[y])

\* ---------------------------------------------------- multishade properties
\* out is the cell-wise mean of the finite ones among a and b
IsNanMean(out, a, b) ==
    \A i \in Idx :
        /\ (isfinite(a[i]) /\ isfinite(b[i])) =>
               (isfinite(out[i]) /\ 2 * out[i].v = a[i].v + b[i].v)
        /\ (isfinite(a[i]) /\ ~isfinite(b[i])) => out[i] = a[i]
        /\ (~isfinite(a[i]) /\ isfinite(b[i])) => out[i] = b[i]
        /\ (~isfinite(a[i]) /\ ~isfinite(b[i])) => isnan(out[i])
\* the value of hillshade(mapper, azimuth) for a mapper with this value
SingleShade(value, azimuth) ==
    hillshade([layers[1] EXCEPT !.value = value], grids[1], azimuth, 1, "x1", 1).layer.value
IsMultishadeChild(d) ==
    /\ origin[d].parent = 1
    /\ layers[1].processors[origin[d].pos].proc.name = "multishade"

\* C11: at every cell multishade(azimuths=(a, b)) is the mean of the two
\* single-azimuth hillshades when both are finite, the finite one when one
\* is, NaN when none is; over a Grid that is entirely NaN the result is
\* entirely NaN; and no warning is issued and no error raised.  The
\* averaging step is checked on arbitrary pairs of shades as well.
C11_MultishadeIsNanMean ==
    /\ \A d \in DOMAIN layers :
           IsMultishadeChild(d) =>
               LET az == layers[1].processors[origin[d].pos].params.azimuths
               IN /\ IsNanMean(layers[d].value,
                               SingleShade(origin[d].seen, az[1]),
                               SingleShade(origin[d].seen, az[2]))
                  /\ (\A i \in Idx : isnan(grids[1][i])) =>
                         \A i \in Idx : isnan(layers[d].value[i])
    /\ \A k \in DOMAIN invoked :
           LET p == layers[invoked[k].layer].processors[invoked[k].pos]
           IN (p.proc.name = "multishade" /\ Len(p.params.azimuths) = 2) =>
                  (~invoked[k].warned /\ invoked[k].raises = "")
    /\ last.op = "average" =>
           /\ IsNanMean(last.averaged.out, last.shade1, last.shade2)
           /\ ~last.averaged.warned
\* A multishade whose two single shades differ at a cell and are averaged.
C11_Witness ==
    \E d \in DOMAIN layers, j \in Idx :
        LET az == layers[1].processors[origin[d].pos].params.azimuths
            s1 == SingleShade(origin[d].seen, az[1])
            s2 == SingleShade(origin[d].seen, az[2])
        IN /\ IsMultishadeChild(d)
           /\ isfinite(s1[j]) /\ isfinite(s2[j]) /\ s1[j] # s2[j]
           /\ 2 * layers[d].value[j].v = s1[j].v + s2[j].v
\* A multishade over a Grid with a NaN cell: NaN there, finite elsewhere.
C11_WitnessNaN ==
    \E d \in DOMAIN layers, i, j \in Idx :
        /\ IsMultishadeChild(d)
        /\ isnan(grids[1][i]) /\ isnan(layers[d].value[i])
        /\ isfinite(layers[d].value[j])
\* The averaging step met a cell with one finite shade and a cell with none.
C11_WitnessAverage ==
    /\ last.op = "average"
    /\ \E i, j \in Idx :
           /\ isfinite(last.shade1[i]) /\ isnan(last.shade2[i])
           /\ last.averaged.out[i] = last.shade1[i]
           /\ isnan(last.shade1[j]) /\ isnan(last.shade2[j])
           /\ isnan(last.averaged.out[j])
\* A multishade over a Grid that is entirely NaN.
C11_WitnessAllNaN ==
    \E d \in DOMAIN layers :
        /\ IsMultishadeChild(d)
        /\ \A i \in Idx : isnan(grids[1][i]) /\ isnan(layers[d].value[i])

\* an invocation of a multishade processor whose azimuths are not two
IsBadMultishade(e) ==
    LET p == layers[e.layer].processors[e.pos]
    IN p.proc.name = "multishade" /\ Len(p.params.azimuths) # 2
LastInvoked == invoked[Len(invoked)]

\* C12: a multishade processor whose azimuths are not exactly two is built
\* without error and fails when it is invoked: the step that raises creates
\* no MapObject and no GridObject and leaves the source as it was, every
\* activation of the walk is abandoned, the expansion returns no list and
\* the ValueError is what its caller gets; a multishade with two azimuths
\* does not raise.
C12_BadAzimuthsRaiseAtInvocation ==
    /\ [](/\ \A k \in DOMAIN invoked :
                 (invoked[k].raises = "ValueError") <=> IsBadMultishade(invoked[k])
          /\ (raised # "") <=> (pc = "raised")
          /\ pc = "raised" =>
                 /\ raised = "ValueError" /\ stack = <<>> /\ result = <<>>
                 /\ IsBadMultishade(LastInvoked)
                 /\ LastInvoked.after = LastInvoked.before
                 /\ \A d \in DOMAIN layers :
                        ~(origin[d].parent = LastInvoked.layer
                              /\ origin[d].pos = LastInvoked.pos)
          /\ pc = "done" =>
                 \A i \in DOMAIN layers[1].processors :
                     ~(IsCompatible(layers[1].processors[i], mode)
                           /\ IsBadMultishade([layer |-> 1, pos |-> i])))
    /\ [][raised' # "" => (layers' = layers /\ grids' = grids /\ origin' = origin)]_vars
\* A mask ran, then a multishade built with three azimuths raised.
C12_Witness ==
    /\ pc = "raised" /\ raised = "ValueError"
    /\ Len(invoked) = 2
    /\ Len(layers[1].processors[2].params.azimuths) = 3
    /\ layers[1].value # last.value
    /\ Len(layers) = 1

\* ------------------------------------------------------ lighting properties
IsDisabledLighting ==
    last.op = "call" /\ last.proc.params.enabled = "False"
FlatPreset(m) ==
    /\ m.ambient = 100 /\ m.diffuse = 0 /\ m.specular = 0
    /\ m.specular_power = 100 /\ m.smooth_shading = "False"
SceneFields == {"eye_dome_lighting", "light_azimuth", "light_elevation", "light_intensity"}

\* C14: lighting_control(enabled=False, ...) puts the MapObject in the flat
\* preset and no other argument of the processor has any effect: the
\* MapObject is the one it was, but for the five fields of the preset.
C14_AsStated ==
    IsDisabledLighting =>
        /\ FlatPreset(layers[1])
        /\ \A f \in SceneFields : layers[1][f] = last.before[f]
\* What the code does: the preset overrides the five material arguments,
\* and the four scene arguments are applied whatever enabled is.
DisabledLightingKeepsSceneArguments ==
    IsDisabledLighting =>
        /\ FlatPreset(layers[1])
        /\ \A f \in SceneFields :
               layers[1][f] = IF last.proc.params[f] = NoLighting[f]
                              THEN last.before[f] ELSE last.proc.params[f]
\* lighting_control(enabled=False, light_azimuth=90) on a MapObject whose
\* light_azimuth was None.
C14_Witness ==
    /\ IsDisabledLighting
    /\ last.proc.params.light_azimuth = Fin(9000)
    /\ last.before.light_azimuth = NoneV
    /\ layers[1].light_azimuth = Fin(9000)
    /\ FlatPreset(layers[1])

\* --------------------------------------------------------- scale properties
ScalePositions == {i \in DOMAIN layers[1].processors : layers[1].processors[i].proc.name = "scale"}
\* the product of the factors of the scale processors at positions 1..k
RECURSIVE FactorProduct(_)
FactorProduct(k) ==
    IF k = 0 THEN 1
    ELSE FactorProduct(k - 1) *
         (IF k \in ScalePositions THEN layers[1].processors[k].params.factor ELSE 1)
\* the root MapObject as it was when the expansion started
RootBefore == [layers[1] EXCEPT !.z_scale_factor = last.z_scale_factor]

C13_WitnessTwice ==
    /\ pc = "done" /\ mode = "3d"
    /\ layers[1].processors = <<scale(2), scale(2)>>
    /\ last.z_scale_factor = 1
    /\ layers[1].z_scale_factor = 4
\* a 2D expansion of a MapObject with a scale processor
C13_Witness2D ==
    /\ pc = "done" /\ mode = "2d"
    /\ ScalePositions # {}
    /\ layers[1].z_scale_factor = last.z_scale_factor

\* ------------------------------------------------------ workflow properties
Declared == {workflow.spec.inputs[i].name : i \in DOMAIN workflow.spec.inputs}
DeclOf(name) ==
    workflow.spec.inputs[CHOOSE i \in DOMAIN workflow.spec.inputs :
                             workflow.spec.inputs[i].name = name]
\* the Python type a declared input type parses to ("" when it keeps the raw
\* value or depends on the text)
TypeOfParsed(type) ==
    CASE type \in {"absent", "path", "str"} -> "str"
      [] type = "int" -> "int" [] type = "float" -> "float" [] type = "bool" -> "bool"
      [] OTHER -> ""
MissingInputs ==
    {n \in Declared : n \notin DOMAIN last.provided /\ DeclOf(n).default = Absent}

\* C15: resolve_inputs(provided) returns one entry per declared input and
\* no other: the provided value parsed as the declared type (str when no
\* type is declared) when the name is provided, else the declared default
\* as it is; it raises when a declared input is neither provided nor has a
\* default, and otherwise only when a provided value cannot be parsed.
C15_ResolveInputs ==
    last.op = "resolve_inputs" =>
        /\ MissingInputs # {} => last.returned.raises # ""
        /\ last.returned.raises = "KeyError" => MissingInputs # {}
        /\ last.returned.raises # "" =>
               \/ MissingInputs # {}
               \/ \E n \in Declared \cap DOMAIN last.provided :
                      _parse_value(last.provided[n], input_type(DeclOf(n))).raises # ""
        /\ last.returned.raises = "" =>
               /\ DOMAIN last.returned.resolved = Declared
               /\ \A n \in Declared :
                      IF n \in DOMAIN last.provided
                      THEN /\ last.returned.resolved[n] =
                                  _parse_value(last.provided[n], input_type(DeclOf(n))).value
                           /\ TypeOfParsed(DeclOf(n).type) # "" =>
                                  last.returned.resolved[n].py = TypeOfParsed(DeclOf(n).type)
                      ELSE last.returned.resolved[n] = DeclOf(n).default
\* a is provided as the text "7" and declared int, b is not provided and has
\* a default, zz is provided and not declared: {a: 7, b: "x.tif"}.
C15_Witness ==
    /\ last.op = "resolve_inputs" /\ last.returned.raises = ""
    /\ Declared = {"a", "b"} /\ DOMAIN last.provided = {"a", "zz"}
    /\ DeclOf("a").type = "int" /\ last.provided["a"] = PyStr("7")
    /\ last.returned.resolved = [n \in {"a", "b"} |-> IF n = "a" THEN PyInt(7) ELSE PyStr("x.tif")]
\* an input without default that is not provided
C15_WitnessMissing ==
    /\ last.op = "resolve_inputs" /\ last.returned.raises = "KeyError"
    /\ MissingInputs # {}

\* the calls build_maps made to loaders and to processor factories
OutsideCalls == {k \in DOMAIN invoked : invoked[k].target \in {"loader", "factory"}}
RECURSIVE ContainsRef(_)
ContainsRef(value) ==
    \/ value.py = "dict"
    \/ \E k \in DOMAIN value.items : ContainsRef(value.items[k])
LoaderCalls == {k \in DOMAIN invoked : k > last.first /\ invoked[k].target = "loader"}
\* the data source the loader call at position k of the log was made for
SourceOf(k) == workflow.file.data_sources[k - last.first]
RefsOf(params) == {params[key].s : key \in {x \in DOMAIN params : params[x].py = "dict"}}

\* C16: no {"$ref": name} object of the document reaches a loader or a
\* processor factory: wherever one occurs in the parameters of a data source
\* or of a processor, the call receives the value of the input instead.
C16_AsStated ==
    \A k \in OutsideCalls :
        \A key \in DOMAIN invoked[k].params : ~ContainsRef(invoked[k].params[key])
\* What the code does: a parameter whose value is a {"$ref": name} object is
\* replaced by the value of the input and every other value is passed as it
\* is, whatever it holds; build_maps raises KeyError when name is no key of
\* inputs, before the loader is called.
RefParametersAreResolved ==
    /\ \A k \in OutsideCalls :
           \A key \in DOMAIN invoked[k].params : invoked[k].params[key].py # "dict"
    /\ last.op = "build_maps" =>
           /\ \A k \in LoaderCalls :
                  /\ invoked[k].name = SourceOf(k).loader
                  /\ DOMAIN invoked[k].params = DOMAIN SourceOf(k).params
                  /\ \A key \in DOMAIN invoked[k].params :
                         invoked[k].params[key] =
                             IF SourceOf(k).params[key].py = "dict"
                             THEN last.inputs[SourceOf(k).params[key].s]
                             ELSE SourceOf(k).params[key]
           /\ \A i \in DOMAIN workflow.file.data_sources :
                  /\ Cardinality(LoaderCalls) = i - 1
                  /\ workflow.file.data_sources[i].loader \in BUILTIN_LOADERS
                  /\ ~(RefsOf(workflow.file.data_sources[i].params) \subseteq Declared)
                  => raised = "KeyError"
\* multishade declared with azimuths [{"$ref": "az"}, 135.0]: the factory
\* is called with the list as it is.
C16_Witness ==
    /\ last.op = "build_maps" /\ raised = ""
    /\ \E k \in OutsideCalls :
           /\ invoked[k].target = "factory" /\ invoked[k].name = "multishade"
           /\ invoked[k].params.azimuths = PyList(<<PyRef("az"), PyFloat(135)>>)
\* the spec's example: path = {"$ref": "dem_path"}, no override, rasterio
\* receives path = "x.tif"
C16_WitnessExample ==
    /\ last.op = "build_maps"
    /\ \E k \in LoaderCalls :
           /\ invoked[k].name = "rasterio"
           /\ SourceOf(k).params.path = PyRef("dem_path")
           /\ invoked[k].params.path = PyStr("x.tif")
\* a data source whose path refers to an input that is not declared
C16_WitnessMissing ==
    /\ last.op = "build_maps" /\ raised = "KeyError" /\ LoaderCalls = {}
    /\ workflow.file.data_sources[1].params.path = PyRef("nope")

\* the processor declared at position k of map j, and the one built there
DeclaredProc(j, k) == workflow.file.maps[j].processors[k]
BuiltProc(j, k) == layers[result[j]].processors[k]
\* the MapObject built for map j is on the GridObject of its data source, has
\* the declared name and colormap, and as many processors as declared, each
\* what the factory registered under the declared name returns for the
\* resolved parameters
BuiltAsDeclared(j) ==
    /\ workflow.file.maps[j].name # NoName => layers[result[j]].name = workflow.file.maps[j].name
    /\ layers[result[j]].cmap = workflow.file.maps[j].cmap
    /\ Len(layers[result[j]].processors) = Len(workflow.file.maps[j].processors)
    /\ \A k \in DOMAIN workflow.file.maps[j].processors :
           BuiltProc(j, k) =
               factory(DeclaredProc(j, k).name,
                       _resolve_params(DeclaredProc(j, k).params, last.inputs).value).proc
\* the name of the processor the factory registered under a name builds
RegisteredName(name) == IF name = "double_scale" THEN "scale" ELSE name

\* C17: build_maps returns one MapObject per declared map, in declaration
\* order, whose processors are, position by position, a processor of the
\* declared name built with the declared, resolved parameters.
C17_AsStated ==
    last.op = "build_maps" /\ raised = "" =>
        /\ Len(result) = Len(workflow.file.maps)
        /\ \A j \in DOMAIN result :
               /\ BuiltAsDeclared(j)
               /\ \A k \in DOMAIN workflow.file.maps[j].processors :
                      BuiltProc(j, k).proc.name = DeclaredProc(j, k).name
\* C17 (amended): the same, but the processor at a position is the one the
\* factory registered under the declared name builds: its name is the
\* declared name, except that double_scale builds a processor named scale.
C17_BuiltByRegisteredFactory ==
    last.op = "build_maps" /\ raised = "" =>
        /\ Len(result) = Len(workflow.file.maps)
        /\ \A j \in DOMAIN result :
               /\ BuiltAsDeclared(j)
               /\ \A k \in DOMAIN workflow.file.maps[j].processors :
                      BuiltProc(j, k).proc.name = RegisteredName(DeclaredProc(j, k).name)
\* two maps; the first declares double_scale, then hillshade with azimuth
\* {"$ref": "az"} and az provided as "7": a scale by 2, then a hillshade of
\* azimuth 7.0
C17_Witness ==
    /\ last.op = "build_maps" /\ raised = "" /\ Len(result) = 2
    /\ Len(workflow.file.maps[1].processors) = 2
    /\ DeclaredProc(1, 1).name = "double_scale"
    /\ BuiltProc(1, 1) = scale(2)
    /\ DeclaredProc(1, 2) = ProcSpec("hillshade", OneParam("azimuth", PyRef("az")))
    /\ BuiltProc(1, 2) = hillshade_processor(PyFloat(7))
    /\ layers[result[2]].name = "hs"

\* ----------------------------------------------------------- run properties
Range(f) == {f[k] : k \in DOMAIN f}
\* two MapObjects agree on display parameters and processor chain
SameDisplayAndChain(x, y) ==
    /\ layers[x].cmap = layers[y].cmap /\ layers[x].alpha = layers[y].alpha
    /\ layers[x].vmin = layers[y].vmin /\ layers[x].vmax = layers[y].vmax
    /\ layers[x].draped = layers[y].draped
    /\ layers[x].processors = layers[y].processors
\* the document is the one that was loaded, and no build_maps call returned a
\* MapObject that an earlier call returned
SpecKeptAndLayersFresh ==
    /\ workflow.spec = workflow.file
    /\ \A a, b \in DOMAIN workflow.built :
           a < b => Range(workflow.built[a].maps) \cap Range(workflow.built[b].maps) = {}

\* C18: materialization leaves the document as loaded and builds new
\* MapObjects in every call; two calls with the same inputs build MapObjects
\* with the same names, display parameters and processor chains.
C18_AsStated ==
    /\ SpecKeptAndLayersFresh
    /\ \A a, b \in DOMAIN workflow.built :
           a < b /\ workflow.built[a].inputs = workflow.built[b].inputs =>
               /\ Len(workflow.built[a].maps) = Len(workflow.built[b].maps)
               /\ \A j \in DOMAIN workflow.built[a].maps :
                      /\ SameDisplayAndChain(workflow.built[a].maps[j], workflow.built[b].maps[j])
                      /\ layers[workflow.built[a].maps[j]].name =
                             layers[workflow.built[b].maps[j]].name
\* C18 (amended): the same, but the names are the same for the maps that
\* declare a name; a map without one is named anew in every call.
C18_SpecIsNeverModified ==
    /\ SpecKeptAndLayersFresh
    /\ \A a, b \in DOMAIN workflow.built :
           a < b /\ workflow.built[a].inputs = workflow.built[b].inputs =>
               /\ Len(workflow.built[a].maps) = Len(workflow.built[b].maps)
               /\ \A j \in DOMAIN workflow.built[a].maps :
                      /\ SameDisplayAndChain(workflow.built[a].maps[j], workflow.built[b].maps[j])
                      /\ workflow.file.maps[j].name # NoName =>
                             /\ layers[workflow.built[a].maps[j]].name = workflow.file.maps[j].name
                             /\ layers[workflow.built[b].maps[j]].name = workflow.file.maps[j].name
\* a run in mode both has finished: build_maps returned three times for the
\* same inputs, whose $ref parameters were resolved each time
C18_Witness ==
    /\ pc = "idle" /\ last.op = "run" /\ raised = ""
    /\ Len(workflow.built) = 3
    /\ workflow.built[1].inputs = workflow.built[3].inputs
    /\ workflow.file.maps[1].name = "dem"
    /\ layers[workflow.built[1].maps[1]].processors = <<hillshade_processor(PyFloat(315))>>
    /\ workflow.built[1].maps[1] # workflow.built[3].maps[1]
\* two calls with the same inputs on a map without name, named differently
C18_WitnessUnnamed ==
    /\ \E a, b \in DOMAIN workflow.built :
           /\ a < b /\ workflow.built[a].inputs = workflow.built[b].inputs
           /\ layers[workflow.built[a].maps[1]].name # layers[workflow.built[b].maps[1]].name

\* the events of the run that was called last
RunEvents == {k \in DOMAIN invoked : last.op = "run" /\ k >= last.first}
Is2D(k) ==
    \/ invoked[k].target \in {"Fig2DObject", "action"}
    \/ invoked[k].target \in {"add_maps", "show", "return"} /\ invoked[k].name = "fig2d"
Is3D(k) ==
    \/ invoked[k].target = "Fig3DObject"
    \/ invoked[k].target \in {"add_maps", "show", "return"} /\ invoked[k].name = "fig3d"
Renders(k) == invoked[k].target \in {"Fig2DObject", "Fig3DObject", "add_maps", "action", "show"}
\* the call of run or self.run the event at k belongs to
ActivationOf(k) ==
    CHOOSE r \in RunEvents :
        /\ r < k /\ invoked[r].target \in {"run", "self.run"}
        /\ \A q \in RunEvents : q > r /\ q < k => invoked[q].target \notin {"run", "self.run"}
IsActionEvent(e) == e.target = "action"
ActionsApplied ==
    SelectSeq(SubSeq(invoked, last.first, Len(invoked)), IsActionEvent)
\* the mode the claim says the run resolves to: the argument when one is
\* given (None and the empty string are not), else run.mode of the document,
\* else fig2d
ExpectedMode ==
    IF last.mode \notin {"None", ""} THEN last.mode
    ELSE IF workflow.file.run.mode # "absent" THEN workflow.file.run.mode
    ELSE "fig2d"

\* C19: in a run, build_maps has returned before anything is rendered and
\* the renderer is given what it returned; with mode both every step of the
\* 2D render, its return included, precedes every step of the 3D render; the
\* recorded actions are applied after add_maps, in the order of the list;
\* the mode is the argument of run when given, else run.mode, else fig2d.
C19_RunOrder ==
    last.op = "run" =>
        /\ \A k \in RunEvents :
               Renders(k) =>
                   \E b \in RunEvents :
                       /\ ActivationOf(k) < b /\ b < k
                       /\ invoked[b].target = "build_maps"
        /\ pc = "run" /\ Top.at \in {"actions", "show", "return"} /\ Top.selected # "both" =>
               /\ fig.maps = Top.maps
               /\ fig.maps = workflow.built[Len(workflow.built)].maps
        /\ \A i, k \in RunEvents : Is2D(i) /\ Is3D(k) => i < k
        /\ \A k \in RunEvents :
               Is3D(k) /\ ExpectedMode = "both" =>
                   /\ \E j \in RunEvents : j < k /\ invoked[j] = Event("return", "fig2d")
                   /\ \E j \in RunEvents : j < k /\ invoked[j] = Event("show", "fig2d")
                   /\ Len(ActionsApplied) = Len(workflow.file.fig2d.actions)
        /\ \A n \in DOMAIN ActionsApplied :
               ActionsApplied[n].name = workflow.file.fig2d.actions[n].type
        /\ \A k \in RunEvents :
               invoked[k].target = "action" =>
                   \E a \in RunEvents :
                       a < k /\ a > ActivationOf(k) /\ invoked[a] = Event("add_maps", "fig2d")
        /\ \A k \in RunEvents :
               /\ invoked[k].target = "Fig2DObject" => ExpectedMode \in {"fig2d", "both"}
               /\ invoked[k].target = "Fig3DObject" => ExpectedMode \in {"fig3d", "both"}
        /\ pc = "idle" /\ raised = "" =>
               /\ ExpectedMode \in {"fig2d", "both"} =>
                      \E k \in RunEvents : invoked[k].target = "Fig2DObject"
               /\ ExpectedMode \in {"fig3d", "both"} =>
                      \E k \in RunEvents : invoked[k].target = "Fig3DObject"
        /\ pc = "idle" /\ ExpectedMode \notin {"fig2d", "fig3d", "both"} => raised # ""
\* run(inputs) on a document with run.mode both and two recorded actions has
\* returned: 2D figure, add_maps, title, xlabel, show, then the 3D figure
C19_Witness ==
    /\ last.op = "run" /\ last.mode = "None" /\ workflow.file.run.mode = "both"
    /\ pc = "idle" /\ raised = ""
    /\ Len(ActionsApplied) = 2
    /\ ActionsApplied[1].name = "title" /\ ActionsApplied[2].name = "xlabel"
    /\ \E k \in RunEvents : invoked[k].target = "Fig3DObject"
\* run(inputs, mode="fig2d") on a document with run.mode fig3d
C19_WitnessArgument ==
    /\ last.op = "run" /\ last.mode = "fig2d" /\ workflow.file.run.mode = "fig3d"
    /\ pc = "idle" /\ raised = ""
    /\ \E k \in RunEvents : invoked[k].target = "Fig2DObject"
    /\ \A k \in RunEvents : invoked[k].target # "Fig3DObject"

\* the ways in which a document cannot be materialized with the inputs of
\* the run: an unknown loader, an unknown data source, an unknown processor,
\* a $ref parameter that names no input
UnknownLoader ==
    \E i \in DOMAIN workflow.file.data_sources :
        workflow.file.data_sources[i].loader \notin BUILTIN_LOADERS
UnknownDataSource ==
    \E j \in DOMAIN workflow.file.maps :
        \A i \in DOMAIN workflow.file.data_sources :
            workflow.file.data_sources[i].id # workflow.file.maps[j].data
UnknownProcessor ==
    \E j \in DOMAIN workflow.file.maps :
        \E k \in DOMAIN workflow.file.maps[j].processors :
            workflow.file.maps[j].processors[k].name \notin BUILTIN_PROCESSORS
MissingRef ==
    \/ \E i \in DOMAIN workflow.file.data_sources :
           ~(RefsOf(workflow.file.data_sources[i].params) \subseteq DOMAIN last.inputs)
    \/ \E j \in DOMAIN workflow.file.maps :
           \E k \in DOMAIN workflow.file.maps[j].processors :
               ~(RefsOf(workflow.file.maps[j].processors[k].params) \subseteq DOMAIN last.inputs)
CannotMaterialize == UnknownLoader \/ UnknownDataSource \/ UnknownProcessor \/ MissingRef

C20_WitnessUnknown ==
    /\ last.op = "run" /\ pc = "idle" /\ raised = "ValueError"
    /\ workflow.file.run.mode = "both" /\ last.mode = "None"
    /\ UnknownProcessor /\ ~UnknownLoader /\ ~MissingRef /\ ~UnknownDataSource

\* ------------------------------------------------- bounds after processors
\* the calls of the running expansion that assigned the root's value
\* through the setter (gaussian_smooth), by position in the log
SetterCalls ==
    {k \in DOMAIN invoked :
        invoked[k].layer = 1 /\ invoked[k].raises = "" /\ "sigma" \in DOMAIN invoked[k].self}
\* the value the bounds of the root were computed from last
BoundsSource ==
    IF SetterCalls = {} THEN last.value
    ELSE invoked[CHOOSE k \in SetterCalls : \A j \in SetterCalls : j <= k].after

\* C27: whatever built-in processors have run on a MapObject constructed
\* without explicit bounds, its vmin and vmax are the least and the greatest
\* finite entry of its current value (NaN, NaN when it has none).
C27_AsStated ==
    /\ layers[1].vmin = FiniteMin(layers[1].value)
    /\ layers[1].vmax = FiniteMax(layers[1].value)
\* C27, as the code has it: the mask processors write NaN into the stored
\* array and leave vmin and vmax as they were; the bounds are the least and
\* greatest finite entry of the value the constructor or the value setter
\* (gaussian_smooth) stored last.
C27_BoundsFollowTheSetter ==
    last.op = "expand" =>
        /\ layers[1].vmin = FiniteMin(BoundsSource)
        /\ layers[1].vmax = FiniteMax(BoundsSource)
\* nan_above(1) has masked the greatest entry of the value [0, 1, ...]: the
\* value has no entry 1 any more and vmax is still 1
C27_Witness ==
    /\ last.op = "expand" /\ pc = "done" /\ Len(invoked) = 1
    /\ "threshold" \in DOMAIN invoked[1].self
    /\ invoked[1].before # invoked[1].after
    /\ layers[1].value = invoked[1].after
    /\ layers[1].vmax = Fin(1) /\ FiniteMax(layers[1].value) # Fin(1)

\* ------------------------------------------ flags assigned after building
\* the value a flag of the processor has now, in the running mode
FlagNow(p) ==
    \/ mode = "none"
    \/ mode = "2d" /\ p.proc.compatible_2d
    \/ mode = "3d" /\ p.proc.compatible_3d
\* the value the flag was given when the processor was built
FlagAtConstruction(p) ==
    \/ mode = "none"
    \/ mode = "2d" /\ p.proc.attr_2d_compatible
    \/ mode = "3d" /\ p.proc.attr_3d_compatible

\* C28: an expansion consults the value compatible_2d / compatible_3d has
\* when the expansion runs: a finished expansion has invoked the processors
\* of the root whose flag for the mode is True at that time, and no other.
C28_AsStated ==
    pc = "done" =>
        \A i \in DOMAIN layers[1].processors :
            InvokedAt(1, i) # {} <=> FlagNow(layers[1].processors[i])
\* What the code does: the expansion reads the string-keyed attribute that
\* __post_init__ copied from the flag when the processor was built.
FlagAtConstructionGatesInvocation ==
    pc = "done" =>
        \A i \in DOMAIN layers[1].processors :
            InvokedAt(1, i) # {} <=> FlagAtConstruction(layers[1].processors[i])
\* compatible_2d = False was assigned on a processor built 2D-compatible,
\* and the 2D expansion that followed has invoked it
C28_Witness ==
    /\ pc = "done" /\ mode = "2d"
    /\ \E i \in DOMAIN layers[1].processors :
           /\ ~layers[1].processors[i].proc.compatible_2d
           /\ layers[1].processors[i].proc.attr_2d_compatible
           /\ InvokedAt(1, i) # {}

\* --------------------------------------------------- ranges of the material
InRange(m, f) ==
    IF f = "specular_power" THEN m[f] >= 0 ELSE m[f] >= 0 /\ m[f] <= 100
\* the fields the operation made last assigns
Written ==
    CASE last.op = "set" -> {last.field}
      [] last.op = "call" /\ last.field \in {"lighting_intensity_up", "lighting_intensity_down"} ->
             {"ambient", "diffuse", "specular"}
      [] last.op = "call" /\ last.field \in {"lighting_brighten", "lighting_darken"} ->
             {"ambient", "diffuse"}
      [] OTHER -> {}

\* C26: in every reachable state of a MapObject, ambient, diffuse and
\* specular lie in [0, 1] and specular_power is >= 0.
C26_AsStated == \A f \in MaterialFields : InRange(layers[1], f)
\* What the code does: a setter or a processor leaves the fields it
\* assigns in their ranges, and every other field as it was; the
\* constructor stores its arguments as they are.
SettersClampConstructorDoesNot ==
    last.op # "init" =>
        \A f \in MaterialFields :
            \/ InRange(layers[1], f)
            \/ f \notin Written /\ layers[1][f] = last.before[f]
\* MapObject(grid, specular=1.2) followed by lighting_brighten: specular is
\* still 1.2
C26_Witness ==
    /\ last.op = "call" /\ last.field = "lighting_brighten"
    /\ layers[1].specular = 120
    /\ InRange(layers[1], "ambient") /\ InRange(layers[1], "diffuse")

\* ------------------------------------------------------ a second expansion
LightingFields ==
    {"ambient", "diffuse", "specular", "specular_power", "smooth_shading",
     "eye_dome_lighting", "light_azimuth", "light_elevation", "light_intensity"}
SecondExpansionDone == last.op = "again" /\ pc = "done"
\* the processors of the root a second expansion in the running mode invokes
InvokedAgain(name) ==
    {i \in DOMAIN layers[1].processors :
        /\ layers[1].processors[i].proc.name = name
        /\ IsCompatible(layers[1].processors[i], mode)}

\* C29: a second expansion of the same root leaves the root as the first
\* left it (value, z_scale_factor, lighting fields) and returns MapObjects
\* with the same values as the first.
C29_AsStated ==
    SecondExpansionDone =>
        /\ layers[1].value = last.root.value
        /\ layers[1].z_scale_factor = last.root.z_scale_factor
        /\ \A f \in LightingFields : layers[1][f] = last.root[f]
        /\ Len(result) = Len(last.values)
        /\ \A j \in DOMAIN result : layers[result[j]].value = last.values[j]
\* What the code does: the second expansion invokes the compatible
\* processors again on the root as the first expansion left it; each scale
\* processor multiplies z_scale_factor once more, each relative lighting
\* processor multiplies the (clamped) material fields once more.
SecondExpansionAppliesAgain ==
    SecondExpansionDone =>
        /\ layers[1].z_scale_factor =
               last.root.z_scale_factor * Power(2, Cardinality(InvokedAgain("scale")))
        /\ InvokedAgain("lighting_intensity_up") # {} /\ last.root.ambient < 80
               => layers[1].ambient > last.root.ambient
        /\ Cardinality({k \in DOMAIN invoked : invoked[k].layer = 1}) =
               Cardinality({i \in DOMAIN layers[1].processors :
                               IsCompatible(layers[1].processors[i], mode)})
\* a root with scale(2) was expanded in 3D twice: z_scale_factor was 2
\* after the first expansion and is 4 after the second
C29_Witness ==
    /\ SecondExpansionDone /\ mode = "3d" /\ last.mode = "3d"
    /\ Cardinality(InvokedAgain("scale")) = 1
    /\ last.root.z_scale_factor = 2 /\ layers[1].z_scale_factor = 4

\* ------------------------------------------------ size of an expansion
\* the hillshade and multishade processors of the root that the running
\* mode invokes
ShadersOnRoot ==
    {i \in DOMAIN layers[1].processors :
        /\ layers[1].processors[i].proc.name \in Shaders
        /\ IsCompatible(layers[1].processors[i], mode)}
ExpansionIsShallow ==
    /\ Len(stack) <= 2
    /\ \A d \in DOMAIN layers : origin[d].parent # 0 => layers[d].processors = <<>>
    /\ pc = "done" => Len(result) = 1 + Cardinality(ShadersOnRoot)

\* the work a running expansion has left: per activation of walk, the
\* processors not yet looked at (3 each), the returned items not yet
\* looked at (2 each) and its return (1)
RECURSIVE WorkLeft(_)
WorkLeft(k) ==
    IF k = 0 THEN 0
    ELSE WorkLeft(k - 1)
         + 3 * (Len(layers[stack[k].cur].processors) + 1 - stack[k].pi)
         + 2 * Len(stack[k].pending) + 1
Measure == WorkLeft(Len(stack))
\* a running walk can always take a step
WalkCanStep ==
    pc = "walk" =>
        /\ stack # <<>>
        /\ \/ Top.pending # <<>>
           \/ Top.pi <= Len(layers[Top.cur].processors)
           \/ Top.pi > Len(layers[Top.cur].processors)

C24_WitnessMutator ==
    /\ pc = "done" /\ mode = "3d" /\ Len(result) = 2
    /\ Len(layers[1].processors) = 2 /\ layers[1].z_scale_factor = 2

\* ------------------------------------- the collector against the engine
\* a MapObject without the name it was given (the names of derived
\* MapObjects are generated at random)
Unnamed(m) == [m EXCEPT !.name = "-"]
CollectorDone == last.op = "add_maps" /\ pc = "done"

\* C25: the MapObjects Fig3DObject.add_maps collects for a root are those
\* expand_plottables(root, mode="3d") returns, in the same order and after
\* the same processor invocations.
C25_CollectorFollowsTheEngine ==
    CollectorDone =>
        /\ [j \in DOMAIN plot_list |-> plot_list[j][1]] = last.expected
        /\ \A j \in DOMAIN plot_list :
               Unnamed(layers[plot_list[j][1]]) = Unnamed(last.values[j])
        /\ invoked = last.calls
\* both have run on a root with a scale and a hillshade processor: two
\* MapObjects, two invocations
C25_Witness ==
    /\ CollectorDone
    /\ Len(plot_list) = 2 /\ Len(invoked) = 2
    /\ layers[1].z_scale_factor = 2
    /\ layers[plot_list[2][1]].cmap = "gray"
\* both have run on a root with two shading processors and have skipped
\* nothing
C25_WitnessChildren ==
    /\ CollectorDone /\ Len(plot_list) = 3 /\ Len(invoked) = 2
    /\ Len(layers[1].processors) = 2

\* ------------------------------------------------------- saving the figure
\* the document asks for the 2D figure to be saved
SavePathGiven == workflow.file.fig2d.save_path \notin {"absent", ""}
\* the events of the fig2d activation of the run
Events2D == {k \in RunEvents : Is2D(k) \/ invoked[k].target = "save"}
AllActionsValid ==
    \A i \in DOMAIN workflow.file.fig2d.actions :
        _apply_fig2d_action(workflow.file.fig2d.actions[i]) = ""
\* a finished run that resolved to fig2d
Finished2D ==
    /\ last.op = "run" /\ pc = "idle"
    /\ ExpectedMode = "fig2d"

\* C30: a run in fig2d mode of a document with a save_path saves the figure
\* after all maps were added and all actions applied, and returns the
\* figure without an error.
C30_AsStated ==
    Finished2D /\ SavePathGiven /\ AllActionsValid =>
        /\ raised = ""
        /\ \E k \in Events2D :
               /\ invoked[k].target = "save"
               /\ \A j \in Events2D :
                      invoked[j].target \in {"add_maps", "action"} => j < k
               /\ Len(ActionsApplied) = Len(workflow.file.fig2d.actions)
\* What the code does: the maps are added and the actions applied, then the
\* call fig.save(path) raises TypeError, because Fig2DObject.save takes
\* keyword arguments only; nothing is saved or shown and run does not return.
SavePathRaisesTypeError ==
    Finished2D /\ SavePathGiven /\ AllActionsValid =>
        /\ raised = "TypeError"
        /\ \A k \in Events2D : invoked[k].target \notin {"save", "show", "return"}
        /\ \E k \in Events2D : invoked[k].target = "add_maps"
        /\ Len(ActionsApplied) = Len(workflow.file.fig2d.actions)
\* run(inputs, mode="fig2d") on a document with save_path "out.png" and
\* two valid actions has ended with TypeError
C30_Witness ==
    /\ Finished2D /\ SavePathGiven /\ last.mode = "fig2d"
    /\ workflow.file.fig2d.save_path = "out.png"
    /\ Len(workflow.file.fig2d.actions) = 2 /\ Len(ActionsApplied) = 2
    /\ raised = "TypeError"
\* without a save_path the same run returns the figure
C30_WitnessNoSave ==
    /\ Finished2D /\ ~SavePathGiven /\ AllActionsValid
    /\ raised = ""
    /\ \E k \in Events2D : invoked[k].target = "return"

\* ------------------------------------------------- defaults of the inputs
\* an input of the document holds no default
LacksDefault == validate_defaults(workflow.file) # ""
\* the workflow was started from the command line
ThroughMain == \E k \in DOMAIN invoked : invoked[k].target = "main"
LoaderInvoked == \E k \in DOMAIN invoked : invoked[k].target = "loader"
Rendered == \E k \in DOMAIN invoked : Renders(k)

\* C23: a workflow with an input that lacks a default is rejected before any
\* loader is invoked or anything is rendered, on every execution path: the
\* command line as well as resolve_inputs followed by run called directly.
C23_AsStated == LacksDefault => ~LoaderInvoked /\ ~Rendered
\* What the code does: only main calls validate_defaults, so from the command
\* line such a workflow ends with ValueError and nothing else is called;
\* called directly, resolve_inputs raises KeyError only when the caller
\* gives no value for the input, and otherwise the workflow runs.
OnlyMainValidatesDefaults ==
    /\ LacksDefault /\ ThroughMain =>
           /\ raised = "ValueError" /\ pc = "idle"
           /\ invoked = <<Event("main", "")>>
    /\ LacksDefault /\ ~ThroughMain /\ (LoaderInvoked \/ Rendered) =>
           /\ last.op = "run"
           /\ \A i \in DOMAIN workflow.file.inputs :
                  workflow.file.inputs[i].default = Absent =>
                      workflow.file.inputs[i].name \in DOMAIN last.inputs
    /\ LacksDefault /\ last.op = "resolve_inputs" =>
           raised = "KeyError" /\ invoked = <<Event("resolve_inputs", "")>>
\* a document whose input az holds no default was run directly with a value
\* for az: the loader was called and the figure returned
C23_Witness ==
    /\ LacksDefault /\ ~ThroughMain
    /\ last.op = "run" /\ pc = "idle" /\ raised = ""
    /\ LoaderInvoked /\ Rendered
    /\ \E k \in DOMAIN invoked : invoked[k].target = "return"
\* the same document is rejected by main
C23_WitnessMain ==
    /\ LacksDefault /\ ThroughMain /\ raised = "ValueError"
    /\ \E i \in DOMAIN workflow.file.inputs :
           workflow.file.inputs[i].name = "az" /\ workflow.file.inputs[i].default = Absent

\* ------------------------------------------------------ the exported document
Exported == last.op = "export"
DisplayParameters ==
    {"cmap", "vmin", "vmax", "alpha", "cbar", "draped",
     "ambient", "diffuse", "specular", "specular_power", "smooth_shading",
     "eye_dome_lighting", "light_azimuth", "light_elevation", "light_intensity"}
\* the input, the data source and the processors written for the k-th
\* MapObject of base_maps
InputAndSourceWritten(k) ==
    /\ \E i \in DOMAIN workflow.file.inputs :
           workflow.file.inputs[i] =
               InputSpec(last.roots[k].name \o "_path", "path",
                         PyStr(last.roots[k].name \o ".tif"))
    /\ \E d \in DOMAIN workflow.file.data_sources :
           /\ workflow.file.data_sources[d].id = workflow.file.maps[k].data
           /\ \E key \in DOMAIN workflow.file.data_sources[d].params :
                  workflow.file.data_sources[d].params[key] =
                      PyRef(last.roots[k].name \o "_path")
ProcessorsWritten(k) ==
    /\ Len(workflow.file.maps[k].processors) = Len(last.roots[k].processors)
    /\ \A i \in DOMAIN last.roots[k].processors :
           /\ workflow.file.maps[k].processors[i].name = last.roots[k].processors[i].proc.name
           /\ \A key \in DOMAIN vars_of(last.roots[k].processors[i]) :
                  IF _is_jsonable(vars_of(last.roots[k].processors[i])[key])
                  THEN /\ key \in DOMAIN workflow.file.maps[k].processors[i].params
                       /\ workflow.file.maps[k].processors[i].params[key] =
                              vars_of(last.roots[k].processors[i])[key]
                  ELSE key \notin DOMAIN workflow.file.maps[k].processors[i].params
RecordsParameters(k, fields) ==
    \A f \in fields :
        IF f \in DOMAIN workflow.file.maps[k]
        THEN workflow.file.maps[k][f] = last.roots[k][f]
        ELSE FALSE

\* C21: the exported document holds, for every MapObject given to add_maps
\* and for no derived one, an input <name>_path of type path with default
\* <name>.tif, a data source that refers to it through $ref, and a map entry
\* with all display parameters (cmap, vmin, vmax, alpha, cbar, draped and the
\* lighting fields) and, for every processor in order, its name and its
\* JSON-serializable parameters, the others being omitted.
C21_AsStated ==
    Exported =>
        /\ Len(workflow.file.maps) = Len(last.roots)
        /\ \A k \in DOMAIN last.roots :
               /\ workflow.file.maps[k].name = last.roots[k].name
               /\ InputAndSourceWritten(k)
               /\ ProcessorsWritten(k)
               /\ RecordsParameters(k, DisplayParameters)
\* What the code does: all of this except that the map entry holds neither
\* vmin nor vmax.
ExportOmitsBounds ==
    Exported =>
        /\ Len(workflow.file.maps) = Len(last.roots)
        /\ workflow.file.run.mode = last.kind
        /\ \A k \in DOMAIN last.roots :
               /\ workflow.file.maps[k].name = last.roots[k].name
               /\ InputAndSourceWritten(k)
               /\ ProcessorsWritten(k)
               /\ RecordsParameters(k, DisplayParameters \ {"vmin", "vmax"})
               /\ {"vmin", "vmax"} \cap DOMAIN workflow.file.maps[k] = {}
\* a figure holding a MapObject constructed with vmin=0, vmax=5 and a
\* nan_mask processor, and a derived MapObject, was exported
C21_Witness ==
    /\ Exported
    /\ last.roots[1].vmin = Fin(0) /\ last.roots[1].vmax = Fin(5)
    /\ "vmin" \notin DOMAIN workflow.file.maps[1]
    /\ \E i \in DOMAIN last.roots[1].processors :
           /\ last.roots[1].processors[i].proc.name = "nan_mask"
           /\ workflow.file.maps[1].processors[i].params = <<>>
    /\ Len(layers) > Len(workflow.file.maps)

\* ------------------------------------------------------------ the round trip
RoundTripDone == last.op = "rebuild"
\* the keyword arguments of the built-in factories, and those without default
FactoryKeywords(name) ==
    CASE name = "scale" -> {"factor"}
      [] name = "nan_above" -> {"threshold"}
      [] name = "nan_mask" -> {"mask"}
      [] name = "hillshade" -> {"azimuth", "altitude", "exaggerate", "fused"}
      [] name = "multishade" -> {"azimuths", "altitude", "exaggerate", "fused"}
      [] OTHER -> {}
FactoryRequired(name) ==
    CASE name = "scale" -> {"factor"}
      [] name = "nan_mask" -> {"mask"}
      [] OTHER -> {}
\* the factory of the processor takes what the export wrote for it
CanBeBuiltAgain(p) ==
    /\ DOMAIN _serialize_proc_params(p) \subseteq FactoryKeywords(p.proc.name)
    /\ FactoryRequired(p.proc.name) \subseteq DOMAIN _serialize_proc_params(p)
SameAsOriginals ==
    /\ Len(result) = Len(last.roots)
    /\ \A k \in DOMAIN last.roots :
           /\ layers[result[k]].name = last.roots[k].name
           /\ Len(layers[result[k]].processors) = Len(last.roots[k].processors)
           /\ \A i \in DOMAIN last.roots[k].processors :
                  /\ layers[result[k]].processors[i].proc.name =
                         last.roots[k].processors[i].proc.name
                  /\ _serialize_proc_params(layers[result[k]].processors[i]) =
                         _serialize_proc_params(last.roots[k].processors[i])

\* C22: exporting MapObjects that carry any built-in processors (processors
\* with edited or added fields and nan_mask included), then resolve_inputs
\* with no values and build_maps, succeeds and gives MapObjects with the
\* same names, processor names and serializable parameter values.
C22_AsStated == RoundTripDone => raised = "" /\ SameAsOriginals
\* What the code does: the round trip gives the same when every factory
\* takes the parameters written for its processor, and otherwise build_maps
\* raises TypeError: for nan_mask, whose mask was omitted, and for a
\* processor with an attribute that is no keyword of its factory.
RoundTripNeedsFactoryKeywords ==
    RoundTripDone =>
        IF \A k \in DOMAIN last.roots : \A i \in DOMAIN last.roots[k].processors :
               CanBeBuiltAgain(last.roots[k].processors[i])
        THEN raised = "" /\ SameAsOriginals
        ELSE raised = "TypeError" /\ result = <<>>
\* a multishade processor was given the attribute alpha (as in
\* examples/fig3d_t1.py); build_maps on the exported workflow raised TypeError
C22_Witness ==
    /\ RoundTripDone /\ raised = "TypeError"
    /\ \A i \in DOMAIN last.roots[1].processors :
           /\ last.roots[1].processors[i].proc.name = "multishade"
           /\ "alpha" \in DOMAIN last.roots[1].processors[i].params
    /\ Len(last.roots[1].processors) = 1
\* the same with a nan_mask processor and no attribute added
C22_WitnessMask ==
    /\ RoundTripDone /\ raised = "TypeError"
    /\ Len(last.roots[1].processors) = 1
    /\ last.roots[1].processors[1] = nan_mask(NdArray)
\* a round trip that succeeds: threshold edited to 500, and scale
C22_WitnessSame ==
    /\ RoundTripDone /\ raised = "" /\ SameAsOriginals
    /\ Len(last.roots) = 2 /\ Len(last.roots[1].processors) = 2
    /\ last.roots[1].processors[1].proc.name = "nan_above"
    /\ last.roots[1].processors[1].params.threshold = PyFloat(500)
    /\ last.roots[1].processors[2].proc.name = "scale"

====
